---- MODULE Spec2Model ----
(***************************************************************************)
(* Session orchestration, client bridge and render job controller of the   *)
(* storydream backend.                                                     *)
(*                                                                         *)
(*   SpecRender, SpecRenderFair : backend/src/render.ts (render job        *)
(*                controller)                                              *)
(*   SpecListeners : the same, with the listeners of its events            *)
(*   SpecBridge : backend/src/websocket.ts (client connection bridge) over *)
(*                backend/src/container.ts (local compute backend), one    *)
(*                client connection                                        *)
(*   SpecReconnect : the same, the client connecting a second time         *)
(*   SpecForward : the same, with the messages of the agents               *)
(*   SpecBackend, SpecBackendFair : backend/src/container.ts (local) and   *)
(*                backend/src/kubernetes.ts (cluster), the compute backend *)
(*                under any callers                                        *)
(*   SpecSweep : the same, with the sweep of shutdown() in index.ts        *)
(*   SpecSuspendFair : the compute backend next to the poller of a render  *)
(*                job, under fairness of the timers and of the cluster API *)
(*   SpecAgent : project-container/agent/src/server.ts (the agent server   *)
(*                of one container), one connection of the bridge          *)
(*   SpecQueue : the MessageQueue class of that file, under any producer   *)
(*                and consumer                                             *)
(*   SpecPorts : backend/src/container.ts, the host ports over many        *)
(*                sessions created one after the other                     *)
(*                                                                         *)
(* Every action is the code that runs between two suspension points        *)
(* (await) of one handler; the handlers interleave freely, as callbacks of *)
(* a single-threaded event loop do.                                        *)
(***************************************************************************)
EXTENDS Integers, Sequences, FiniteSets, TLC

(***************************************************************************)
(* Bounds of the model                                                     *)
(***************************************************************************)
\* poll ticks the interval may fire for one job
MaxTicks == 3
\* cancelRenderJob calls
MaxCancels == 2
\* poll ticks and cancelRenderJob calls when listeners are registered
\* (SpecListeners)
MaxListenerTicks == 1
MaxListenerCancels == 1
\* client messages (session:start, message:send, session:end) received on a
\* connection: alone (SpecBridge); on the first and on the second connection
\* of a client that connects again (SpecReconnect); with agent traffic
\* (SpecForward)
MaxClientMsgs == 3
MaxFirstMsgs == 2
MaxSecondMsgs == 1
MaxForwardMsgs == 2
\* messages the agents send to the bridge, over all agent channels
MaxAgentMsgs == 3
\* prompts the agent receives on its connection; init messages and result
\* messages its SDK emits on it (SpecAgent)
MaxPrompts == 3
MaxInits == 2
MaxResults == 1
\* cancel messages the agent receives on its connection (SpecAgent)
MaxAgentCancels == 1
\* createSession and destroySession calls of the callers of the compute
\* backend (SpecBackend), the same while the process shuts down (SpecSweep)
\* and under fairness (SpecBackendFair), and the sleeps of one readiness
\* wait that end on time
MaxCreates == 2
MaxDestroys == 2
MaxSweepCreates == 2
MaxSweepDestroys == 1
MaxWaitCreates == 1
MaxWaitDestroys == 1
MaxPolls == 1

(***************************************************************************)
(* Values                                                                  *)
(***************************************************************************)
Null == "null"

\* render ids: "r1" is the id createRenderJob draws; "rX" is never created
RenderIds == {"r1"}

\* the listeners callers register: l1 returns, l2 throws, l3 unsubscribes
\* itself with removeRenderEventListener and returns
Listeners == {"l1", "l2", "l3"}
Behaviour == [l1 |-> "returns", l2 |-> "throws", l3 |-> "unsubscribes"]
NoDelivery == [calls |-> << >>, caught |-> 0]
UnknownIds == {"rX"}

\* RenderJob.status (render.ts:15)
Terminal == {"completed", "failed"}

\* the output URL the completion metadata carries, and the deterministic
\* fallback path of render.ts:236
MetaUrl == "metaUrl"
FallbackUrl == "fallbackUrl"

\* error texts
ErrTimeout == "Render job timed out"
ErrCancelled == "Cancelled by user"
ErrUnitFailed == "Render job failed - check K8s logs for details"
ErrRenderFailed == "Render failed"
ErrNotFound == "Job not found and no metadata available"
MetaErr == "metaError"

\* what the completion metadata object in storage may hold (written by the
\* render container); NoMeta: the object does not exist
NoMeta == [status |-> Null, outputUrl |-> Null, error |-> Null]
MetaValues ==
  { [status |-> "completed", outputUrl |-> MetaUrl, error |-> Null],
    [status |-> "completed", outputUrl |-> Null, error |-> Null],
    [status |-> "failed", outputUrl |-> Null, error |-> MetaErr],
    [status |-> "failed", outputUrl |-> Null, error |-> Null] }

\* the suspension points of one poll tick
TickPcs == {"readJob", "metaSucceeded", "metaFailed", "metaNotFound"}
NoTicks == [p \in TickPcs |-> 0]

\* the connections of one client: it opens "c2" after "c1" has closed
Conns == {"c1", "c2"}

\* session ids, in the order uuidv4() draws them: every session:start draws
\* at most one
SessionIds == 1 .. (MaxClientMsgs + MaxFirstMsgs + MaxSecondMsgs)

\* slots for the suspended invocations of the asynchronous handlers (one per
\* client message and one per cleanup timer), and for the agent WebSockets
\* (one per session:start)
HandlerIds == 1 .. (MaxClientMsgs + MaxFirstMsgs + MaxSecondMsgs + Cardinality(Conns))
SockIds == SessionIds

\* container.ts:7-8
BASE_PREVIEW_PORT == 4100
BASE_AGENT_PORT == 4200

\* null, where a session id or an agent socket is expected
NoId == 0

\* an agent WebSocket that was never opened
NoSock == [state |-> "none", conn |-> Null, sid |-> NoId]

\* a handler slot that is not running
IdleHandler ==
  [conn |-> Null, kind |-> Null, pc |-> "done", sid |-> NoId, port |-> 0]

\* websocket.ts:22-27
NewClient == [sessionId |-> NoId, agentWs |-> NoId, cleanupTimer |-> Null]

\* agent -> bridge message types that matter to the bridge; session_id
\* (server.ts:141-144) carries a resume token
AgentMsgTypes == {"agent_message", "complete", "session_id"}

\* messageQueue when it is null (server.ts:79, 182), and a new MessageQueue
\* (server.ts:19-22): its buffer, the resolvers of the next() calls that
\* wait (each named by the number of its call) and the closed flag; pushed
\* counts the messages it accepted
NoQueue ==
  [state |-> "null", pushed |-> 0, queue |-> << >>,
   waitingResolvers |-> << >>]
NewQueue ==
  [state |-> "open", pushed |-> 0, queue |-> << >>,
   waitingResolvers |-> << >>]

\* the IteratorResult of a next() call: not settled yet, a message, or done
Pending == [settled |-> FALSE, done |-> FALSE, value |-> 0]
Value(msg) == [settled |-> TRUE, done |-> FALSE, value |-> msg]
Done == [settled |-> TRUE, done |-> TRUE, value |-> 0]

\* abortController when it is null (server.ts:81), and the AbortController
\* startStreamingQuery makes for query number n (server.ts:89)
NoController == [query |-> 0, aborted |-> FALSE]
NewController(n) == [query |-> n, aborted |-> FALSE]

\* index.ts:6-9
Modes == {"local", "cluster"}

\* createSession(projectId?)
ProjectIds == {Null, "p1"}

\* slots for the calls of the backend
CallIds == 1 .. (MaxCreates + MaxDestroys)

\* kubernetes.ts:164 and kubernetes.ts:227, in ms
POD_READY_TIMEOUT == 300000
POLL_SLEEP == 2000

\* a call slot that is not in use
IdleCall ==
  [op |-> "none", pc |-> "idle", sid |-> NoId, project |-> Null,
   agent |-> Null, port |-> 0, elapsed |-> 0, polls |-> 0, seen |-> Null,
   found |-> FALSE, err |-> Null, sync |-> Null, del |-> Null]

\* cleanupAllSessions before it is called
NoSweep ==
  [pc |-> "idle", cur |-> NoId, pos |-> 0, tracked |-> {}, called |-> {},
   failed |-> {}]

VARIABLES
  \* ---- container.ts ----
  sessions,       \* Map sessionId -> Session
  unitOf,         \* per session id: its container ("none" | "created" |
                  \* "running" | "stopped")
  nextId,         \* the next id uuidv4() draws
  portCounter,    \* container.ts:20
  destroyCalls,   \* per session id: destroySession calls made for it
  owner,          \* per drawn session id: the connection it was created for
  removed,        \* session ids deleted from the registry
  \* ---- websocket.ts ----
  wsState,        \* per connection: "none" | "open" | "closed"
  client,         \* per connection: its ClientConnection
  handlers,       \* per handler id: the suspended handler invocation
  sock,           \* per socket id: the agent WebSocket a start opened
  agentChan,      \* per agent socket: messages sent by the agent, not yet
                  \* delivered to the bridge
  agentSent,      \* messages the agents have sent so far
  agentIn,        \* per agent socket: prompts the bridge sent to the agent
  bridgeRecv,     \* per connection: agent messages its handlers received
  clientOut,      \* per connection: messages sent to the client
  msgCount,       \* per connection: client messages received
  script,         \* per connection: how far its messages follow the sequence
                  \* start, send*, end
  closedWith,     \* per connection: what the close handler found
  reconnectedFor, \* sessions whose cleanup was pending when a client connected
  \* ---- render.ts ----
  activeJobs,     \* Map renderId -> RenderJob
  events,         \* sequence of the events handed to emitRenderEvent
  createPc,       \* per id: position of createRenderJob
  pollInterval,   \* per id: the setInterval handle is live
  ceilingTimer,   \* per id: "unset" | "pending" | "fired"
  ticks,          \* per id: number of poll ticks suspended at each await
  ticksFired,     \* per id: poll ticks started so far
  cancelsInFlight,\* per id: cancelRenderJob calls awaiting the delete
  cancelCalls,    \* cancelRenderJob calls made so far
  lastCancel,     \* the last cancelRenderJob call: its argument and return
  lastMetaRead,   \* per id: the last readRenderMetadata answer and its reader
  lastRead,       \* per id: what the last readNamespacedJob answered
  deleteCalls,    \* per id: deleteNamespacedJob requests issued
  unit,           \* per id: the batch unit as the cluster holds it
  meta,           \* per id: completion metadata object in storage
  eventListeners, \* render.ts:57: the registered listeners, in order
  delivered,      \* the last emitRenderEvent: the listeners it invoked,
                  \* in order, and the exceptions it caught
  \* ---- project-container/agent/src/server.ts ----
  agentProc,      \* "down" | "up": the agent process of one container
  INITIAL_SESSION_ID, \* server.ts:15
  agentConn,      \* "none" | "open" | "closed": the connection of the bridge
  sessionId,      \* server.ts:83, of that connection
  queryRunning,   \* server.ts:84
  messageQueue,   \* server.ts:79: the queue ("null" | "open" | "closed")
  pushLog,        \* the push calls made on the connection, in call order
  nexts,          \* the result of each next() call of the consumer
  pendingPush,    \* the prompts whose handlers wait for their 10 ms timer
  promptCount,    \* prompts received on the connection
  queries,        \* the options of the queries started on the connection
  inits,          \* the session ids of the init messages of the SDK
  agentOut,       \* messages sent on the connection
  abortController, \* server.ts:81: the controller of the last query started
  cancelMsgs,     \* cancel messages received on the connection
  \* ---- container.ts | kubernetes.ts, called from anywhere ----
  mode,           \* "local" | "cluster" (index.ts:6-9)
  calls,          \* per call id: a createSession or destroySession call
  regLog,         \* session ids in the order sessions.set registered them
  sweep,          \* the cleanupAllSessions call of shutdown()
  syncCalls,      \* per session id: requests sent to its sync endpoint
  stopCalls,      \* per session id: unit deletions (container.stop,
                  \* deleteNamespacedPod) requested
  lastCall        \* the createSession or destroySession call that ended
                  \* last, as it ended

renderVars ==
  << activeJobs, events, createPc, pollInterval, ceilingTimer, ticks,
     ticksFired, cancelsInFlight, cancelCalls, lastCancel, lastMetaRead,
     deleteCalls, unit, meta, eventListeners, delivered, lastRead >>

backendVars ==
  << sessions, unitOf, nextId, portCounter, destroyCalls, owner, removed >>

bridgeVars ==
  << wsState, client, handlers, sock, agentChan, agentSent,
     agentIn, bridgeRecv, clientOut, msgCount, script, closedWith, reconnectedFor >>

agentVars ==
  << agentProc, INITIAL_SESSION_ID, agentConn, sessionId, queryRunning,
     messageQueue, pendingPush, promptCount, queries, inits, agentOut,
     abortController, cancelMsgs, pushLog, nexts >>

apiVars ==
  << mode, calls, regLog, sweep, syncCalls, stopCalls, lastCall >>

moreVars == << agentVars, apiVars >>

vars == << renderVars, backendVars, bridgeVars, moreVars >>

(***************************************************************************)
(* render.ts                                                               *)
(***************************************************************************)

\* indexOf + splice of removeRenderEventListener (render.ts:64-67): the
\* first occurrence of l is taken out of ls
Splice(ls, l) ==
  IF \A i \in 1 .. Len(ls) : ls[i] # l
    THEN ls
    ELSE LET k == CHOOSE i \in 1 .. Len(ls) :
                    ls[i] = l /\ \A j \in 1 .. (i - 1) : ls[j] # l
         IN SubSeq(ls, 1, k - 1) \o SubSeq(ls, k + 1, Len(ls))

\* render.ts:72-76: the exception of a listener is caught and logged, and
\* forEach goes on with the next index
AfterThrow(k, len) == k + 1

\* eventListeners.forEach of render.ts:71-77 from index k on: forEach reads
\* the length len once, before the first call, and then the live array at
\* each index, skipping the indices the array no longer has; d is the
\* delivery so far
RECURSIVE forEach(_, _, _, _)
forEach(ls, k, len, d) ==
  IF k > len THEN [listeners |-> ls, d |-> d]
  ELSE IF k > Len(ls) THEN forEach(ls, k + 1, len, d)
  ELSE LET l == ls[k]
           called == [d EXCEPT !.calls = Append(@, l)]
       IN CASE Behaviour[l] = "throws" ->
                 forEach(ls, AfterThrow(k, len), len,
                         [called EXCEPT !.caught = @ + 1])
            [] Behaviour[l] = "unsubscribes" ->
                 forEach(Splice(ls, l), k + 1, len, called)
            [] OTHER -> forEach(ls, k + 1, len, called)

\* emitRenderEvent: the event is handed to the listeners
emitRenderEvent(ev) ==
  /\ events' = Append(events, ev)
  /\ LET r == forEach(eventListeners, 1, Len(eventListeners), NoDelivery)
     IN /\ eventListeners' = r.listeners
        /\ delivered' = r.d

\* an action that emits nothing
NoEmit == UNCHANGED << events, eventListeners, delivered >>

RenderStarted(id) == [type |-> "render:started", renderId |-> id, data |-> Null]
RenderProgress(id, p) == [type |-> "render:progress", renderId |-> id, data |-> p]
RenderComplete(id, url) == [type |-> "render:complete", renderId |-> id, data |-> url]
RenderFailed(id, err) == [type |-> "render:failed", renderId |-> id, data |-> err]

NewRenderJobRunning ==
  [status |-> "running", progress |-> 10, outputUrl |-> Null, error |-> Null,
   completedAt |-> FALSE]

\* the RenderJob createRenderJob registers
NewRenderJob ==
  [status |-> "pending", progress |-> 0, outputUrl |-> Null, error |-> Null,
   completedAt |-> FALSE]

\* a || b of JavaScript on nullable strings
OrElse(a, b) == IF a = Null THEN b ELSE a

BackendInit ==
  /\ sessions = [s \in {} |-> 0]
  /\ unitOf = [s \in SessionIds |-> "none"]
  /\ nextId = 1
  /\ portCounter = 0
  /\ destroyCalls = [s \in SessionIds |-> 0]
  /\ owner = [s \in {} |-> Null]
  /\ removed = {}

BridgeInit ==
  /\ wsState = [c \in Conns |-> "none"]
  /\ client = [c \in Conns |-> NewClient]
  /\ handlers = [h \in HandlerIds |-> IdleHandler]
  /\ sock = [k \in SockIds |-> NoSock]
  /\ agentChan = [k \in SockIds |-> << >>]
  /\ agentSent = 0
  /\ agentIn = [k \in SockIds |-> 0]
  /\ bridgeRecv = [c \in Conns |-> << >>]
  /\ clientOut = [c \in Conns |-> << >>]
  /\ msgCount = [c \in Conns |-> 0]
  /\ script = [c \in Conns |-> "none"]
  /\ closedWith = [c \in Conns |-> [sid |-> NoId, found |-> FALSE]]
  /\ reconnectedFor = {}

AgentInit ==
  /\ agentProc = "down"
  /\ INITIAL_SESSION_ID = Null
  /\ agentConn = "none"
  /\ sessionId = Null
  /\ queryRunning = FALSE
  /\ messageQueue = NoQueue
  /\ pushLog = << >>
  /\ nexts = << >>
  /\ pendingPush = << >>
  /\ promptCount = 0
  /\ queries = << >>
  /\ inits = << >>
  /\ agentOut = << >>
  /\ abortController = NoController
  /\ cancelMsgs = 0

ApiInit ==
  /\ calls = [k \in CallIds |-> IdleCall]
  /\ regLog = << >>
  /\ sweep = NoSweep
  /\ syncCalls = [s \in SessionIds |-> 0]
  /\ stopCalls = [s \in SessionIds |-> 0]
  /\ lastCall = IdleCall

RenderVarsInit ==
  /\ activeJobs = [id \in {} |-> NewRenderJob]
  /\ events = << >>
  /\ createPc = [id \in RenderIds |-> "idle"]
  /\ pollInterval = [id \in RenderIds |-> FALSE]
  /\ ceilingTimer = [id \in RenderIds |-> "unset"]
  /\ ticks = [id \in RenderIds |-> NoTicks]
  /\ ticksFired = [id \in RenderIds |-> 0]
  /\ cancelsInFlight = [id \in RenderIds |-> 0]
  /\ cancelCalls = 0
  /\ lastCancel = [id |-> Null, ret |-> Null]
  /\ lastMetaRead = [id \in RenderIds |-> [by |-> Null, m |-> NoMeta]]
  /\ deleteCalls = [id \in RenderIds |-> 0]
  /\ unit = [id \in RenderIds |-> "absent"]
  /\ meta = [id \in RenderIds |-> NoMeta]
  /\ eventListeners = << >>
  /\ delivered = NoDelivery
  /\ lastRead = [id \in RenderIds |-> Null]

\* createRenderJob up to its await of createNamespacedJob
CreateRenderJobCall(id) ==
  /\ createPc[id] = "idle"
  /\ createPc' = [createPc EXCEPT ![id] = "creating"]
  /\ UNCHANGED << lastRead, activeJobs, events, eventListeners, delivered,
                  pollInterval, ceilingTimer, ticks,
                  ticksFired, cancelsInFlight, cancelCalls, lastCancel,
                  deleteCalls, unit, meta,
                  lastMetaRead, backendVars, bridgeVars, moreVars >>

\* the batch API rejected the submission: createRenderJob throws
CreateRenderJobRejected(id) ==
  /\ createPc[id] = "creating"
  /\ createPc' = [createPc EXCEPT ![id] = "rejected"]
  /\ UNCHANGED << lastRead, activeJobs, events, eventListeners, delivered,
                  pollInterval, ceilingTimer, ticks,
                  ticksFired, cancelsInFlight, cancelCalls, lastCancel,
                  deleteCalls, unit, meta,
                  lastMetaRead, backendVars, bridgeVars, moreVars >>

\* the batch API accepted it: register the job, emit started, and
\* watchJobStatus arms the poll interval and the ceiling timer
CreateRenderJobResolved(id) ==
  /\ createPc[id] = "creating"
  /\ createPc' = [createPc EXCEPT ![id] = "done"]
  /\ unit' = [unit EXCEPT ![id] = "pending"]
  /\ activeJobs' = (id :> NewRenderJob) @@ activeJobs
  /\ emitRenderEvent(RenderStarted(id))
  /\ pollInterval' = [pollInterval EXCEPT ![id] = TRUE]
  /\ ceilingTimer' = [ceilingTimer EXCEPT ![id] = "pending"]
  /\ UNCHANGED << lastRead, ticks, ticksFired, cancelsInFlight, cancelCalls,
                  lastCancel, deleteCalls, meta, lastMetaRead, backendVars, bridgeVars, moreVars >>

\* what readNamespacedJob answers for a unit in state u: the branch of the
\* poller it selects ("404": the read throws not-found)
ReadJobResult(u) ==
  CASE u = "succeeded" -> "succeeded"
    [] u = "failed" -> "failed"
    [] u = "active" -> "active"
    [] u = "pending" -> "none"
    [] OTHER -> "404"

\* the setInterval callback up to its await of readNamespacedJob
\* (the job is never removed from activeJobs, so the lookup succeeds)
PollTick(id) ==
  /\ pollInterval[id]
  /\ id \in DOMAIN activeJobs
  /\ ticksFired[id] < MaxTicks
  /\ ticksFired' = [ticksFired EXCEPT ![id] = @ + 1]
  /\ ticks' = [ticks EXCEPT ![id]["readJob"] = @ + 1]
  /\ UNCHANGED << lastRead, activeJobs, events, eventListeners, delivered,
                  createPc, pollInterval, ceilingTimer,
                  cancelsInFlight, cancelCalls, lastCancel, deleteCalls,
                  unit, meta,
                  lastMetaRead, backendVars, bridgeVars, moreVars >>

\* a tick moves from one await to the next
TickMove(id, from, to) ==
  ticks' = [ticks EXCEPT ![id][from] = @ - 1, ![id][to] = @ + 1]
TickEnd(id, from) ==
  ticks' = [ticks EXCEPT ![id][from] = @ - 1]

\* render.ts:261-273: the unit is active
ActiveApplies(job) == job.status # "running"
JobAfterActive(job) == [job EXCEPT !.status = "running", !.progress = 10]

\* render.ts:310-312: an error other than not-found is logged; the interval
\* p of the job keeps running
AfterReadErrorStops(p) == FALSE
AfterReadError(p) == p

\* readNamespacedJob answers: succeeded or failed stop the interval and go
\* on to read the metadata, active marks the job running, not-found goes on
\* to read the metadata, any other error is logged
ReadJobReturns(id, res) ==
  /\ ticks[id]["readJob"] > 0
  /\ res \in {ReadJobResult(unit[id]), "error"}
  /\ lastRead' = [lastRead EXCEPT ![id] = res]
  /\ CASE res \in {"succeeded", "failed"} ->
            /\ pollInterval' = [pollInterval EXCEPT ![id] = FALSE]
            /\ TickMove(id, "readJob",
                 IF res = "succeeded" THEN "metaSucceeded" ELSE "metaFailed")
            /\ UNCHANGED << activeJobs, events, eventListeners, delivered >>
       [] res = "active" ->
            /\ TickEnd(id, "readJob")
            /\ IF ActiveApplies(activeJobs[id])
                 THEN /\ activeJobs' =
                           [activeJobs EXCEPT ![id] = JobAfterActive(@)]
                      /\ emitRenderEvent(RenderProgress(id, 10))
                 ELSE UNCHANGED << activeJobs, events, eventListeners, delivered >>
            /\ UNCHANGED pollInterval
       [] res = "404" ->
            /\ TickMove(id, "readJob", "metaNotFound")
            /\ UNCHANGED << activeJobs, events, eventListeners, delivered,
                            pollInterval >>
       [] res = "error" ->
            /\ TickEnd(id, "readJob")
            /\ pollInterval' = [pollInterval EXCEPT ![id] = AfterReadError(@)]
            /\ UNCHANGED << activeJobs, events, eventListeners, delivered >>
       [] OTHER ->
            /\ TickEnd(id, "readJob")
            /\ UNCHANGED << activeJobs, events, eventListeners, delivered,
                            pollInterval >>
  /\ UNCHANGED << createPc, ceilingTimer, ticksFired, cancelsInFlight,
                  cancelCalls, lastCancel, deleteCalls, unit, meta,
                  lastMetaRead, backendVars, bridgeVars, moreVars >>

\* readRenderMetadata answers the object in storage, or null when it does
\* not exist or the read fails (render.ts:190-210)
MetaReads(id) == {meta[id], NoMeta}

\* a succeeded branch without the fallback URL
JobAfterSucceededNoFallback(job, m) ==
  [job EXCEPT !.status = "completed", !.completedAt = TRUE, !.progress = 100,
              !.outputUrl = m.outputUrl]

\* render.ts:232-236
JobAfterSucceeded(job, m) ==
  [job EXCEPT !.status = "completed", !.completedAt = TRUE, !.progress = 100,
              !.outputUrl = OrElse(m.outputUrl, FallbackUrl)]

\* render.ts:251-252
JobAfterFailed(job, m) ==
  [job EXCEPT !.status = "failed",
              !.error = OrElse(m.error, ErrUnitFailed)]

\* a not-found fallback that never looks at the metadata
JobAfterNotFoundNoMetadata(job, m) ==
  [job EXCEPT !.status = "failed", !.error = ErrNotFound]

\* render.ts:282-307: the job after the not-found fallback
JobAfterNotFound(job, m) ==
  IF m.status = "completed" /\ m.outputUrl # Null
    THEN [job EXCEPT !.status = "completed", !.completedAt = TRUE,
                     !.progress = 100, !.outputUrl = m.outputUrl]
    ELSE IF m.status = "failed"
      THEN [job EXCEPT !.status = "failed",
                       !.error = OrElse(m.error, ErrRenderFailed)]
      ELSE [job EXCEPT !.status = "failed", !.error = ErrNotFound]

\* render.ts:288-303: the events the not-found fallback emits (none in its
\* last branch)
EventsAfterNotFound(id, m) ==
  IF m.status = "completed" /\ m.outputUrl # Null
    THEN << RenderComplete(id, m.outputUrl) >>
    ELSE IF m.status = "failed"
      THEN << RenderFailed(id, OrElse(m.error, ErrRenderFailed)) >>
      ELSE << >>

\* the metadata read of a tick that saw the unit succeeded answers
MetaSucceededReturns(id, m) ==
  /\ ticks[id]["metaSucceeded"] > 0
  /\ m \in MetaReads(id)
  /\ TickEnd(id, "metaSucceeded")
  /\ lastMetaRead' = [lastMetaRead EXCEPT ![id] = [by |-> "succeeded", m |-> m]]
  /\ activeJobs' = [activeJobs EXCEPT ![id] = JobAfterSucceeded(@, m)]
  /\ emitRenderEvent(RenderComplete(id, activeJobs'[id].outputUrl))
  /\ UNCHANGED << lastRead, createPc, pollInterval, ceilingTimer, ticksFired,
                  cancelsInFlight, cancelCalls, lastCancel, deleteCalls,
                  unit, meta, backendVars, bridgeVars, moreVars >>

\* the metadata read of a tick that saw the unit failed answers
MetaFailedReturns(id, m) ==
  /\ ticks[id]["metaFailed"] > 0
  /\ m \in MetaReads(id)
  /\ TickEnd(id, "metaFailed")
  /\ lastMetaRead' = [lastMetaRead EXCEPT ![id] = [by |-> "failed", m |-> m]]
  /\ activeJobs' = [activeJobs EXCEPT ![id] = JobAfterFailed(@, m)]
  /\ emitRenderEvent(RenderFailed(id, activeJobs'[id].error))
  /\ UNCHANGED << lastRead, createPc, pollInterval, ceilingTimer, ticksFired,
                  cancelsInFlight, cancelCalls, lastCancel, deleteCalls,
                  unit, meta, backendVars, bridgeVars, moreVars >>

\* the metadata read of a tick whose unit lookup was not-found answers
MetaNotFoundReturns(id, m) ==
  /\ ticks[id]["metaNotFound"] > 0
  /\ m \in MetaReads(id)
  /\ TickEnd(id, "metaNotFound")
  /\ lastMetaRead' = [lastMetaRead EXCEPT ![id] = [by |-> "notFound", m |-> m]]
  /\ activeJobs' = [activeJobs EXCEPT ![id] = JobAfterNotFound(@, m)]
  /\ IF EventsAfterNotFound(id, m) = << >>
       THEN NoEmit
       ELSE emitRenderEvent(EventsAfterNotFound(id, m)[1])
  /\ pollInterval' = [pollInterval EXCEPT ![id] = FALSE]
  /\ UNCHANGED << lastRead, createPc, ceilingTimer, ticksFired, cancelsInFlight,
                  cancelCalls, lastCancel, deleteCalls, unit, meta,
                  backendVars, bridgeVars, moreVars >>

\* a ceiling check that forgets the running jobs
CeilingAppliesPendingOnly(job) == job.status = "pending"

\* render.ts:320: (renderJob && status === 'pending') || status === 'running'
CeilingApplies(job) == job.status = "pending" \/ job.status = "running"
JobAfterCeiling(job) == [job EXCEPT !.status = "failed", !.error = ErrTimeout]

\* the 15-minute setTimeout callback of watchJobStatus
CeilingTimeout(id) ==
  /\ ceilingTimer[id] = "pending"
  /\ ceilingTimer' = [ceilingTimer EXCEPT ![id] = "fired"]
  /\ pollInterval' = [pollInterval EXCEPT ![id] = FALSE]
  /\ IF CeilingApplies(activeJobs[id])
       THEN /\ activeJobs' = [activeJobs EXCEPT ![id] = JobAfterCeiling(@)]
            /\ emitRenderEvent(RenderFailed(id, ErrTimeout))
       ELSE UNCHANGED << activeJobs, events, eventListeners, delivered >>
  /\ UNCHANGED << lastRead, createPc, ticks, ticksFired, cancelsInFlight, cancelCalls,
                  lastCancel, deleteCalls, unit, meta,
                  lastMetaRead, backendVars, bridgeVars, moreVars >>

\* a cancel guard that forgets the failed jobs
CancelRefusedCompletedOnly(id) ==
  \/ id \notin DOMAIN activeJobs
  \/ activeJobs[id].status = "completed"

\* render.ts:354: cancelRenderJob refuses an unknown or a terminal job
CancelRefused(id) ==
  \/ id \notin DOMAIN activeJobs
  \/ activeJobs[id].status = "completed"
  \/ activeJobs[id].status = "failed"

\* cancelRenderJob up to its await of deleteNamespacedJob, or its early
\* return of false
CancelRenderJobCall(id) ==
  /\ cancelCalls < MaxCancels
  /\ cancelCalls' = cancelCalls + 1
  /\ IF CancelRefused(id)
       THEN /\ lastCancel' = [id |-> id, ret |-> "false"]
            /\ UNCHANGED << cancelsInFlight, deleteCalls >>
       ELSE /\ cancelsInFlight' = [cancelsInFlight EXCEPT ![id] = @ + 1]
            /\ deleteCalls' = [deleteCalls EXCEPT ![id] = @ + 1]
            /\ lastCancel' = [id |-> id, ret |-> "pending"]
  /\ UNCHANGED << lastRead, activeJobs, events, eventListeners, delivered,
                  createPc, pollInterval, ceilingTimer,
                  ticks, ticksFired, unit, meta,
                  lastMetaRead, backendVars, bridgeVars, moreVars >>

JobAfterCancelKeepsError(job) == [job EXCEPT !.status = "failed"]

\* render.ts:367-368: the cancelled job is failed with 'Cancelled by user'
JobAfterCancel(job) == [job EXCEPT !.status = "failed", !.error = ErrCancelled]

\* the delete was accepted: the unit is removed, the job is marked failed
\* and cancelRenderJob returns true (the poll interval is left running)
CancelDeleteResolved(id) ==
  /\ cancelsInFlight[id] > 0
  /\ cancelsInFlight' = [cancelsInFlight EXCEPT ![id] = @ - 1]
  /\ unit' = [unit EXCEPT ![id] = "gone"]
  /\ activeJobs' = [activeJobs EXCEPT ![id] = JobAfterCancel(@)]
  /\ emitRenderEvent(RenderFailed(id, ErrCancelled))
  /\ lastCancel' = [id |-> id, ret |-> "true"]
  /\ UNCHANGED << lastRead, createPc, pollInterval, ceilingTimer, ticks, ticksFired,
                  cancelCalls, deleteCalls, meta,
                  lastMetaRead, backendVars, bridgeVars, moreVars >>

\* the delete was rejected: cancelRenderJob logs and returns false
CancelDeleteRejected(id) ==
  /\ cancelsInFlight[id] > 0
  /\ cancelsInFlight' = [cancelsInFlight EXCEPT ![id] = @ - 1]
  /\ lastCancel' = [id |-> id, ret |-> "false"]
  /\ UNCHANGED << lastRead, activeJobs, events, eventListeners, delivered,
                  createPc, pollInterval, ceilingTimer,
                  ticks, ticksFired, cancelCalls, deleteCalls, unit, meta,
                  lastMetaRead, backendVars, bridgeVars, moreVars >>

\* the cluster runs the batch unit: pending -> active -> succeeded | failed,
\* and a unit may disappear at any time (TTL after finish, outside removal)
UnitStep(id, u) ==
  /\ \/ unit[id] = "pending" /\ u \in {"active", "failed", "gone"}
     \/ unit[id] = "active" /\ u \in {"succeeded", "failed", "gone"}
     \/ unit[id] \in {"succeeded", "failed"} /\ u = "gone"
  /\ unit' = [unit EXCEPT ![id] = u]
  /\ UNCHANGED << lastRead, activeJobs, events, eventListeners, delivered,
                  createPc, pollInterval, ceilingTimer,
                  ticks, ticksFired, cancelsInFlight, cancelCalls, lastCancel,
                  deleteCalls, meta,
                  lastMetaRead, backendVars, bridgeVars, moreVars >>

\* the render container writes its completion metadata, once
MetaWrite(id, m) ==
  /\ unit[id] \in {"active", "succeeded", "failed"}
  /\ meta[id] = NoMeta
  /\ m \in MetaValues
  /\ meta' = [meta EXCEPT ![id] = m]
  /\ UNCHANGED << lastRead, activeJobs, events, eventListeners, delivered,
                  createPc, pollInterval, ceilingTimer,
                  ticks, ticksFired, cancelsInFlight, cancelCalls, lastCancel,
                  deleteCalls, unit,
                  lastMetaRead, backendVars, bridgeVars, moreVars >>

RenderNext ==
  \/ \E id \in RenderIds : CreateRenderJobCall(id)
  \/ \E id \in RenderIds : CreateRenderJobRejected(id)
  \/ \E id \in RenderIds : CreateRenderJobResolved(id)
  \/ \E id \in RenderIds : PollTick(id)
  \/ \E id \in RenderIds :
       \E res \in {"succeeded", "failed", "active", "none", "404", "error"} :
         ReadJobReturns(id, res)
  \/ \E id \in RenderIds : \E m \in MetaValues \cup {NoMeta} :
       MetaSucceededReturns(id, m)
  \/ \E id \in RenderIds : \E m \in MetaValues \cup {NoMeta} :
       MetaFailedReturns(id, m)
  \/ \E id \in RenderIds : \E m \in MetaValues \cup {NoMeta} :
       MetaNotFoundReturns(id, m)
  \/ \E id \in RenderIds : CeilingTimeout(id)
  \/ \E id \in RenderIds \cup UnknownIds : CancelRenderJobCall(id)
  \/ \E id \in RenderIds : CancelDeleteResolved(id)
  \/ \E id \in RenderIds : CancelDeleteRejected(id)
  \/ \E id \in RenderIds :
       \E u \in {"active", "succeeded", "failed", "gone"} : UnitStep(id, u)
  \/ \E id \in RenderIds : \E m \in MetaValues : MetaWrite(id, m)

RenderInit ==
  /\ RenderVarsInit
  /\ BackendInit
  /\ BridgeInit
  /\ AgentInit
  /\ ApiInit
  /\ mode = "local"

SpecRender == RenderInit /\ [][RenderNext]_vars

\* what the listener actions leave alone
jobVars ==
  << activeJobs, events, createPc, pollInterval, ceilingTimer, ticks,
     ticksFired, cancelsInFlight, cancelCalls, lastCancel, lastMetaRead,
     deleteCalls, unit, meta, lastRead >>

\* addRenderEventListener (render.ts:59-61); a caller registers a listener
\* it has not registered yet
addRenderEventListener(l) ==
  /\ \A i \in 1 .. Len(eventListeners) : eventListeners[i] # l
  /\ eventListeners' = Append(eventListeners, l)
  /\ UNCHANGED << delivered, jobVars, backendVars, bridgeVars, moreVars >>

\* removeRenderEventListener (render.ts:63-68), called outside a delivery
removeRenderEventListener(l) ==
  /\ eventListeners' = Splice(eventListeners, l)
  /\ UNCHANGED << delivered, jobVars, backendVars, bridgeVars, moreVars >>

\* the render job controller with listeners: one poll tick and one cancel
ListenerNext ==
  \/ \E l \in Listeners : addRenderEventListener(l)
  \/ \E l \in Listeners : removeRenderEventListener(l)
  \/ \E id \in RenderIds : CreateRenderJobCall(id)
  \/ \E id \in RenderIds : CreateRenderJobRejected(id)
  \/ \E id \in RenderIds : CreateRenderJobResolved(id)
  \/ \E id \in RenderIds : ticksFired[id] < MaxListenerTicks /\ PollTick(id)
  \/ \E id \in RenderIds :
       \E res \in {"succeeded", "failed", "active", "none", "404", "error"} :
         ReadJobReturns(id, res)
  \/ \E id \in RenderIds : \E m \in MetaValues \cup {NoMeta} :
       MetaSucceededReturns(id, m)
  \/ \E id \in RenderIds : \E m \in MetaValues \cup {NoMeta} :
       MetaFailedReturns(id, m)
  \/ \E id \in RenderIds : \E m \in MetaValues \cup {NoMeta} :
       MetaNotFoundReturns(id, m)
  \/ \E id \in RenderIds : CeilingTimeout(id)
  \/ \E id \in RenderIds :
       cancelCalls < MaxListenerCancels /\ CancelRenderJobCall(id)
  \/ \E id \in RenderIds : CancelDeleteResolved(id)
  \/ \E id \in RenderIds : CancelDeleteRejected(id)
  \/ \E id \in RenderIds :
       \E u \in {"active", "succeeded", "failed", "gone"} : UnitStep(id, u)
  \/ \E id \in RenderIds : \E m \in MetaValues : MetaWrite(id, m)

SpecListeners == RenderInit /\ [][ListenerNext]_vars

(***************************************************************************)
(* container.ts: the local compute backend                                 *)
(***************************************************************************)

\* the Session createSession builds (container.ts:55-62); conn is the
\* connection it is created for
LocalSession(port, c) ==
  [previewPort |-> BASE_PREVIEW_PORT + port,
   agentPort |-> BASE_AGENT_PORT + port,
   conn |-> c]

\* sessions.delete(sid)
WithoutSession(sid) == [x \in DOMAIN sessions \ {sid} |-> sessions[x]]

\* destroySession up to its await of container.stop(): the lookup of
\* container.ts:74-78
SessionFound(sid) == sid \in DOMAIN sessions

\* destroySession after container.stop() resolved (stopped) or threw:
\* container.ts:82-90
DestroySessionReturns(sid, stopped) ==
  /\ sessions' = WithoutSession(sid)
  /\ removed' = IF SessionFound(sid) THEN removed \cup {sid} ELSE removed
  /\ unitOf' = IF stopped THEN [unitOf EXCEPT ![sid] = "stopped"] ELSE unitOf

(***************************************************************************)
(* websocket.ts: the client connection bridge                              *)
(***************************************************************************)

\* a free slot for a handler invocation, and one for an agent WebSocket
FreeHandler == CHOOSE h \in HandlerIds :
  handlers[h].pc = "done" /\ \A g \in HandlerIds : g < h => handlers[g].pc # "done"
FreeSock == CHOOSE k \in SockIds :
  sock[k].state = "none" /\ \A j \in SockIds : j < k => sock[j].state # "none"

\* handlers of connection c that are suspended at an await
Running(c) == {h \in HandlerIds : handlers[h].conn = c /\ handlers[h].pc # "done"}

\* the bridge -> client messages; data is a message [n, type]: the agent's
\* message for agent:message, the session id or the text otherwise
Payload(n, text) == [n |-> n, type |-> text]
ErrorEvent(text) == [type |-> "error", data |-> Payload(0, text)]
SessionReady(sid) == [type |-> "session:ready", data |-> Payload(sid, "sessionId")]
SessionEnded == [type |-> "session:ended", data |-> Payload(0, Null)]
AgentMessage(msg) == [type |-> "agent:message", data |-> msg]
AgentComplete == [type |-> "agent:complete", data |-> Payload(0, Null)]

\* sendToClient (websocket.ts:182-186): dropped unless the client socket is
\* open
sendToClient(c, evs) ==
  clientOut' = [clientOut EXCEPT
                  ![c] = IF wsState[c] = "open" THEN @ \o evs ELSE @]

\* agentWs.close() on the socket the connection holds, if any
CloseAgentWs(c) ==
  sock' = IF client[c].agentWs # NoId
            THEN [sock EXCEPT ![client[c].agentWs].state = "closed"]
            ELSE sock

\* wss.on('connection'): websocket.ts:19-28
Connect(c) ==
  /\ wsState[c] = "none"
  /\ wsState' = [wsState EXCEPT ![c] = "open"]
  /\ reconnectedFor' = reconnectedFor \cup
       {client[d].sessionId : d \in {e \in Conns :
            client[e].cleanupTimer = "pending" /\ client[e].sessionId # NoId}}
  /\ UNCHANGED << client, handlers, sock, agentChan, agentSent,
                  agentIn, bridgeRecv, clientOut, msgCount, script, closedWith,
                  backendVars, renderVars, moreVars >>

\* the messages received so far are: nothing ("none"); session:start and
\* then only message:send ("started"); those and then session:end ("ended");
\* anything else ("other")
ScriptAfter(sc, t) ==
  CASE sc = "none" /\ t = "session:start" -> "started"
    [] sc = "started" /\ t = "message:send" -> "started"
    [] sc = "started" /\ t = "session:end" -> "ended"
    [] OTHER -> "other"

\* ws.on('message'): a client message of type t arrives on an open
\* connection (websocket.ts:30-41), which receives at most max messages
Receives(c, t, max) ==
  /\ wsState[c] = "open"
  /\ msgCount[c] < max
  /\ msgCount' = [msgCount EXCEPT ![c] = @ + 1]
  /\ script' = [script EXCEPT ![c] = ScriptAfter(@, t)]

\* handleSessionStart from "Create new session" (websocket.ts:103) to the
\* await inside createSession (container.ts:23-32)
BeginCreate(c, h) ==
  /\ handlers' = [handlers EXCEPT ![h] =
       [conn |-> c, kind |-> "start", pc |-> "creating", sid |-> nextId,
        port |-> portCounter]]
  /\ nextId' = nextId + 1
  /\ portCounter' = portCounter + 1
  /\ owner' = (nextId :> c) @@ owner

\* websocket.ts:96-103: after the old session is destroyed, close the old
\* agent socket and create the new session
AfterDestroyCreate(c, h) ==
  /\ client' = [client EXCEPT ![c].agentWs = NoId]
  /\ CloseAgentWs(c)
  /\ BeginCreate(c, h)

\* websocket.ts:94: the connection has a session to destroy first
HasSession(cl) == cl.sessionId # NoId

\* session:start received: handleSessionStart up to its first await
RecvSessionStart(c, max) ==
  /\ Receives(c, "session:start", max)
  /\ LET h == FreeHandler
         sid == client[c].sessionId
     IN /\ IF HasSession(client[c])
             THEN /\ destroyCalls' = [destroyCalls EXCEPT ![sid] = @ + 1]
                  /\ IF SessionFound(sid)
                       THEN /\ handlers' = [handlers EXCEPT ![h] =
                                 [conn |-> c, kind |-> "start",
                                  pc |-> "destroying", sid |-> sid,
                                  port |-> 0]]
                            /\ UNCHANGED << client, sock, nextId,
                                            portCounter, owner >>
                       ELSE AfterDestroyCreate(c, h)
             ELSE /\ BeginCreate(c, h)
                  /\ UNCHANGED << destroyCalls, client, sock >>
  /\ UNCHANGED << sessions, unitOf, removed, wsState, agentChan, agentSent,
                  agentIn, bridgeRecv, clientOut, closedWith, reconnectedFor,
                  renderVars, moreVars >>

\* the destroySession awaited by handleSessionStart returns
StartDestroyReturns(h, stopped) ==
  /\ handlers[h].kind = "start"
  /\ handlers[h].pc = "destroying"
  /\ DestroySessionReturns(handlers[h].sid, stopped)
  /\ AfterDestroyCreate(handlers[h].conn, h)
  /\ UNCHANGED << destroyCalls, wsState, agentChan, agentSent,
                  agentIn, bridgeRecv, clientOut, msgCount, script, closedWith,
                  reconnectedFor, renderVars, moreVars >>

\* createSession returns: the container is started and the Session is
\* registered (container.ts:53-70); the handler records it and goes on to
\* wait for the agent port (websocket.ts:104-108)
StartCreateResolved(h) ==
  /\ handlers[h].kind = "start"
  /\ handlers[h].pc = "creating"
  /\ LET sid == handlers[h].sid
         c == handlers[h].conn
     IN /\ unitOf' = [unitOf EXCEPT ![sid] = "running"]
        /\ sessions' = (sid :> LocalSession(handlers[h].port, c)) @@ sessions
        /\ client' = [client EXCEPT ![c].sessionId = sid]
        /\ handlers' = [handlers EXCEPT ![h].pc = "waitPort"]
  /\ UNCHANGED << nextId, portCounter, destroyCalls, owner, removed, wsState,
                  sock, agentChan, agentSent, agentIn,
                  bridgeRecv, clientOut, msgCount, script, closedWith,
                  reconnectedFor, renderVars, moreVars >>

\* createSession throws: createContainer was rejected (no container), or
\* start was (the container stays created); the message handler reports the
\* error (websocket.ts:34-39)
StartCreateRejected(h, left) ==
  /\ handlers[h].kind = "start"
  /\ handlers[h].pc = "creating"
  /\ left \in {"none", "created"}
  /\ unitOf' = [unitOf EXCEPT ![handlers[h].sid] = left]
  /\ sendToClient(handlers[h].conn, << ErrorEvent("start failed") >>)
  /\ handlers' = [handlers EXCEPT ![h] = IdleHandler]
  /\ UNCHANGED << sessions, nextId, portCounter, destroyCalls, owner, removed,
                  wsState, client, sock, agentChan, agentSent,
                  agentIn, bridgeRecv, msgCount, script, closedWith, reconnectedFor,
                  renderVars, moreVars >>

\* waitForPort returns: open the agent WebSocket and send session:ready
\* (websocket.ts:111-147)
StartPortReady(h) ==
  /\ handlers[h].kind = "start"
  /\ handlers[h].pc = "waitPort"
  /\ unitOf[handlers[h].sid] = "running"
  /\ LET sid == handlers[h].sid
         c == handlers[h].conn
         k == FreeSock
     IN /\ client' = [client EXCEPT ![c].agentWs = k]
        /\ sock' = [sock EXCEPT ![k] =
                      [state |-> "connecting", conn |-> c, sid |-> sid]]
        /\ sendToClient(c, << SessionReady(sid) >>)
  /\ handlers' = [handlers EXCEPT ![h] = IdleHandler]
  /\ UNCHANGED << backendVars, wsState, agentChan, agentSent,
                  agentIn, bridgeRecv, msgCount, script, closedWith, reconnectedFor,
                  renderVars, moreVars >>

\* a start handler that gives up without telling the client
StartPortTimeoutSilent(h) ==
  /\ handlers[h].kind = "start"
  /\ handlers[h].pc = "waitPort"
  /\ handlers' = [handlers EXCEPT ![h] = IdleHandler]
  /\ UNCHANGED << backendVars, wsState, client, sock, agentChan,
                  agentSent, agentIn, bridgeRecv, clientOut, msgCount, script,
                  closedWith, reconnectedFor, renderVars, moreVars >>

\* waitForPort throws after its 30 s (websocket.ts:208)
StartPortTimeout(h) ==
  /\ handlers[h].kind = "start"
  /\ handlers[h].pc = "waitPort"
  /\ sendToClient(handlers[h].conn, << ErrorEvent("start failed") >>)
  /\ handlers' = [handlers EXCEPT ![h] = IdleHandler]
  /\ UNCHANGED << backendVars, wsState, client, sock, agentChan,
                  agentSent, agentIn, bridgeRecv, msgCount, script, closedWith,
                  reconnectedFor, renderVars, moreVars >>

\* the agent WebSocket connects: 'open' (websocket.ts:113-115)
SockOpens(h) ==
  /\ sock[h].state = "connecting"
  /\ unitOf[sock[h].sid] = "running"
  /\ sock' = [sock EXCEPT ![h].state = "open"]
  /\ UNCHANGED << backendVars, wsState, client, handlers,
                  agentChan, agentSent, agentIn, bridgeRecv, clientOut,
                  msgCount, script, closedWith, reconnectedFor, renderVars, moreVars >>

\* the agent WebSocket fails to connect: 'error', then 'close'
\* (websocket.ts:130-140)
SockFails(h) ==
  /\ sock[h].state = "connecting"
  /\ sock' = [sock EXCEPT ![h].state = "closed"]
  /\ sendToClient(sock[h].conn, << ErrorEvent("Agent connection error") >>)
  /\ UNCHANGED << backendVars, wsState, client, handlers,
                  agentChan, agentSent, agentIn, bridgeRecv, msgCount, script,
                  closedWith, reconnectedFor, renderVars, moreVars >>

\* the agent side closes an open channel: 'close' (websocket.ts:138-140)
SockCloses(h) ==
  /\ sock[h].state = "open"
  /\ sock' = [sock EXCEPT ![h].state = "closed"]
  /\ UNCHANGED << backendVars, wsState, client, handlers,
                  agentChan, agentSent, agentIn, bridgeRecv, clientOut,
                  msgCount, script, closedWith, reconnectedFor, renderVars, moreVars >>

\* the agent sends its next message on an open channel
AgentSends(h, t) ==
  /\ sock[h].state = "open"
  /\ agentSent < MaxAgentMsgs
  /\ t \in AgentMsgTypes
  /\ agentSent' = agentSent + 1
  /\ agentChan' = [agentChan EXCEPT ![h] = Append(@, Payload(agentSent + 1, t))]
  /\ UNCHANGED << backendVars, wsState, client, handlers, sock,
                  agentIn, bridgeRecv, clientOut, msgCount, script, closedWith,
                  reconnectedFor, renderVars, moreVars >>

\* a bridge that announces a completion without forwarding the message
OnAgentMessageCoalesced(msg) ==
  IF msg.type = "complete"
    THEN << AgentComplete >>
    ELSE << AgentMessage(msg) >>

\* websocket.ts:119-127: what one agent message makes the bridge send
OnAgentMessage(msg) ==
  IF msg.type = "complete"
    THEN << AgentMessage(msg), AgentComplete >>
    ELSE << AgentMessage(msg) >>

\* agentWs.on('message'): the oldest undelivered message of the channel
\* reaches the bridge (websocket.ts:117-128)
BridgeRecvAgent(h) ==
  /\ agentChan[h] # << >>
  /\ LET msg == Head(agentChan[h])
         c == sock[h].conn
     IN /\ bridgeRecv' = [bridgeRecv EXCEPT ![c] = Append(@, msg)]
        /\ sendToClient(c, OnAgentMessage(msg))
  /\ agentChan' = [agentChan EXCEPT ![h] = Tail(@)]
  /\ UNCHANGED << backendVars, wsState, client, handlers, sock,
                  agentSent, agentIn, msgCount, script, closedWith, reconnectedFor,
                  renderVars, moreVars >>

\* a check of the agent channel that does not look at its readyState
AgentConnectedAnyState(cl) == cl.agentWs # NoId

\* websocket.ts:151: the connection has an open agent channel
AgentConnected(cl) == cl.agentWs # NoId /\ sock[cl.agentWs].state = "open"

\* message:send received: handleMessageSend (websocket.ts:150-166)
RecvMessageSend(c, max) ==
  /\ Receives(c, "message:send", max)
  /\ IF AgentConnected(client[c])
       THEN /\ agentIn' = [agentIn EXCEPT ![client[c].agentWs] = @ + 1]
            /\ UNCHANGED clientOut
       ELSE /\ sendToClient(c,
                 << ErrorEvent("No active session or agent not connected") >>)
            /\ UNCHANGED agentIn
  /\ UNCHANGED << backendVars, wsState, client, handlers, sock,
                  agentChan, agentSent, bridgeRecv, closedWith,
                  reconnectedFor, renderVars, moreVars >>

\* handleSessionEnd from websocket.ts:171 on: forget the session, close the
\* agent socket, acknowledge
EndFinish(c) ==
  /\ client' = [client EXCEPT ![c].sessionId = NoId, ![c].agentWs = NoId]
  /\ CloseAgentWs(c)
  /\ sendToClient(c, << SessionEnded >>)

\* session:end received: handleSessionEnd up to its await of destroySession
RecvSessionEnd(c, max) ==
  /\ Receives(c, "session:end", max)
  /\ LET h == FreeHandler
         sid == client[c].sessionId
     IN IF HasSession(client[c])
          THEN /\ destroyCalls' = [destroyCalls EXCEPT ![sid] = @ + 1]
               /\ IF SessionFound(sid)
                    THEN /\ handlers' = [handlers EXCEPT ![h] =
                              [conn |-> c, kind |-> "end",
                               pc |-> "destroying", sid |-> sid, port |-> 0]]
                         /\ UNCHANGED << client, sock, clientOut >>
                    ELSE /\ EndFinish(c)
                         /\ UNCHANGED handlers
          ELSE /\ client' = [client EXCEPT ![c].agentWs = NoId]
               /\ CloseAgentWs(c)
               /\ sendToClient(c, << SessionEnded >>)
               /\ UNCHANGED << destroyCalls, handlers >>
  /\ UNCHANGED << sessions, unitOf, nextId, portCounter, owner, removed,
                  wsState, agentChan, agentSent, agentIn, bridgeRecv,
                  closedWith, reconnectedFor, renderVars, moreVars >>

\* the destroySession awaited by handleSessionEnd returns
EndDestroyReturns(h, stopped) ==
  /\ handlers[h].kind = "end"
  /\ handlers[h].pc = "destroying"
  /\ DestroySessionReturns(handlers[h].sid, stopped)
  /\ EndFinish(handlers[h].conn)
  /\ handlers' = [handlers EXCEPT ![h] = IdleHandler]
  /\ UNCHANGED << nextId, portCounter, destroyCalls, owner, wsState,
                  agentChan, agentSent, agentIn, bridgeRecv,
                  msgCount, script, closedWith, reconnectedFor, renderVars, moreVars >>

\* websocket.ts:47: the close handler schedules a cleanup
CloseSchedules(cl) == cl.sessionId # NoId

\* ws.on('close'): schedule the cleanup and forget the connection
\* (websocket.ts:43-61); closedWith notes the session the connection held
\* and whether it was registered
Close(c) ==
  /\ wsState[c] = "open"
  /\ wsState' = [wsState EXCEPT ![c] = "closed"]
  /\ client' = [client EXCEPT ![c].cleanupTimer =
                  IF CloseSchedules(client[c]) THEN "pending" ELSE @]
  /\ closedWith' = [closedWith EXCEPT ![c] =
       [sid |-> client[c].sessionId,
        found |-> SessionFound(client[c].sessionId)]]
  /\ UNCHANGED << backendVars, handlers, sock, agentChan,
                  agentSent, agentIn, bridgeRecv, clientOut, msgCount, script,
                  reconnectedFor, renderVars, moreVars >>

\* websocket.ts:51: the cleanup callback destroys the session it finds
CleanupDestroys(cl) == cl.sessionId # NoId

\* the cleanup setTimeout callback up to its await of destroySession
\* (websocket.ts:49-57)
CleanupTimerFires(c) ==
  /\ client[c].cleanupTimer = "pending"
  /\ LET h == FreeHandler
         sid == client[c].sessionId
     IN /\ client' = [client EXCEPT ![c].cleanupTimer = "fired"]
        /\ IF CleanupDestroys(client[c])
             THEN /\ destroyCalls' = [destroyCalls EXCEPT ![sid] = @ + 1]
                  /\ IF SessionFound(sid)
                       THEN /\ handlers' = [handlers EXCEPT ![h] =
                                 [conn |-> c, kind |-> "cleanup",
                                  pc |-> "destroying", sid |-> sid,
                                  port |-> 0]]
                               /\ UNCHANGED sock
                       ELSE /\ CloseAgentWs(c)
                            /\ UNCHANGED handlers
             ELSE /\ CloseAgentWs(c)
                  /\ UNCHANGED << destroyCalls, handlers >>
  /\ UNCHANGED << sessions, unitOf, nextId, portCounter, owner, removed,
                  wsState, agentChan, agentSent, agentIn, bridgeRecv,
                  clientOut, msgCount, script, closedWith, reconnectedFor,
                  renderVars, moreVars >>

\* the destroySession awaited by the cleanup callback returns
CleanupDestroyReturns(h, stopped) ==
  /\ handlers[h].kind = "cleanup"
  /\ handlers[h].pc = "destroying"
  /\ DestroySessionReturns(handlers[h].sid, stopped)
  /\ CloseAgentWs(handlers[h].conn)
  /\ handlers' = [handlers EXCEPT ![h] = IdleHandler]
  /\ UNCHANGED << nextId, portCounter, destroyCalls, owner, wsState, client,
                  agentChan, agentSent, agentIn, bridgeRecv,
                  clientOut, msgCount, script, closedWith, reconnectedFor,
                  renderVars, moreVars >>

\* the awaited calls of the suspended handlers return, and the agent
\* WebSockets connect, fail and close
HandlerSteps ==
  \/ \E h \in HandlerIds : \E stopped \in BOOLEAN :
       StartDestroyReturns(h, stopped)
  \/ \E h \in HandlerIds : StartCreateResolved(h)
  \/ \E h \in HandlerIds : \E left \in {"none", "created"} :
       StartCreateRejected(h, left)
  \/ \E h \in HandlerIds : StartPortReady(h)
  \/ \E h \in HandlerIds : StartPortTimeout(h)
  \/ \E h \in HandlerIds : \E stopped \in BOOLEAN :
       EndDestroyReturns(h, stopped)
  \/ \E h \in HandlerIds : \E stopped \in BOOLEAN :
       CleanupDestroyReturns(h, stopped)
  \/ \E k \in SockIds : SockOpens(k)
  \/ \E k \in SockIds : SockFails(k)
  \/ \E k \in SockIds : SockCloses(k)

\* one client connection, no agent traffic
BridgeNext ==
  \/ Connect("c1")
  \/ RecvSessionStart("c1", MaxClientMsgs)
  \/ RecvMessageSend("c1", MaxClientMsgs)
  \/ RecvSessionEnd("c1", MaxClientMsgs)
  \/ Close("c1")
  \/ CleanupTimerFires("c1")
  \/ HandlerSteps

\* the bridge of websocket.ts runs over the local backend of container.ts
SpecBridge == RenderInit /\ [][BridgeNext]_vars

\* the client connects again, after its first connection closed
Reconnect ==
  /\ wsState["c1"] = "closed"
  /\ Connect("c2")

\* a client that connects again ("c2") after its first connection ("c1")
\* closed
ReconnectNext ==
  \/ Connect("c1")
  \/ RecvSessionStart("c1", MaxFirstMsgs)
  \/ RecvMessageSend("c1", MaxFirstMsgs)
  \/ RecvSessionEnd("c1", MaxFirstMsgs)
  \/ Close("c1")
  \/ CleanupTimerFires("c1")
  \/ Reconnect
  \/ RecvSessionStart("c2", MaxSecondMsgs)
  \/ RecvMessageSend("c2", MaxSecondMsgs)
  \/ RecvSessionEnd("c2", MaxSecondMsgs)
  \/ Close("c2")
  \/ CleanupTimerFires("c2")
  \/ HandlerSteps

SpecReconnect == RenderInit /\ [][ReconnectNext]_vars

\* one client connection whose agents send messages
ForwardNext ==
  \/ Connect("c1")
  \/ RecvSessionStart("c1", MaxForwardMsgs)
  \/ RecvMessageSend("c1", MaxForwardMsgs)
  \/ RecvSessionEnd("c1", MaxForwardMsgs)
  \/ Close("c1")
  \/ CleanupTimerFires("c1")
  \/ HandlerSteps
  \/ \E k \in SockIds : \E t \in AgentMsgTypes : AgentSends(k, t)
  \/ \E k \in SockIds : BridgeRecvAgent(k)

SpecForward == RenderInit /\ [][ForwardNext]_vars

\* the ceiling timer is a setTimeout: once armed it fires
SpecRenderFair ==
  SpecRender /\ \A id \in RenderIds : WF_vars(CeilingTimeout(id))

(***************************************************************************)
(* Properties of the render job controller                                 *)
(***************************************************************************)

StatusOf(id) == activeJobs[id].status

\* C1: RenderJob status is monotonic over every interleaving of poll ticks,
\* cancelRenderJob and the ceiling timer: a completed or failed job never
\* takes another status, and a running job never goes back to pending.
C1_StatusMonotonic ==
  [][\A id \in DOMAIN activeJobs :
       /\ StatusOf(id) \in Terminal => activeJobs'[id].status = StatusOf(id)
       /\ StatusOf(id) = "running" => activeJobs'[id].status # "pending"]_vars

\* C2: every created render job is terminal when the ceiling timer has run:
\* the timer always runs, the step of the timer leaves the job completed or
\* failed, and a job it finds pending or running becomes failed with
\* 'Render job timed out' and one render:failed event carrying that error.
C2_CeilingForcesTerminal ==
  /\ [][\A id \in RenderIds :
          (ceilingTimer[id] = "pending" /\ ceilingTimer'[id] = "fired") =>
            /\ activeJobs'[id].status \in Terminal
            /\ ~pollInterval'[id]
            /\ StatusOf(id) \in {"pending", "running"} =>
                 /\ activeJobs'[id].status = "failed"
                 /\ activeJobs'[id].error = ErrTimeout
                 /\ events' = Append(events, RenderFailed(id, ErrTimeout))]_vars
  /\ \A id \in RenderIds :
       (id \in DOMAIN activeJobs) ~> (ceilingTimer[id] = "fired")

\* C2 witness: the timer found the job unfinished and failed it
C2_Witness ==
  \E id \in DOMAIN activeJobs :
    /\ ceilingTimer[id] = "fired"
    /\ activeJobs[id].error = ErrTimeout
    /\ events[Len(events)] = RenderFailed(id, ErrTimeout)

\* C9: cancelRenderJob on an unknown renderId or on a completed or failed
\* job returns false, issues no unit deletion, emits no event and leaves the
\* job table unchanged.
C9_CancelTerminalIsNoOp ==
  [][(/\ cancelCalls' = cancelCalls + 1
      /\ \/ lastCancel'.id \notin DOMAIN activeJobs
         \/ activeJobs[lastCancel'.id].status \in Terminal)
       => /\ lastCancel'.ret = "false"
          /\ UNCHANGED << activeJobs, events, deleteCalls, cancelsInFlight,
                          unit >>]_vars

\* C9 witness: a cancel of a completed job was refused and nothing was ever
\* deleted
C9_Witness ==
  /\ lastCancel.ret = "false"
  /\ lastCancel.id \in DOMAIN activeJobs
  /\ activeJobs[lastCancel.id].status = "completed"
  /\ activeJobs[lastCancel.id].outputUrl = MetaUrl
  /\ deleteCalls[lastCancel.id] = 0

\* the step in which a tick finishes its not-found fallback for id
NotFoundStep(id) ==
  ticks'[id]["metaNotFound"] = ticks[id]["metaNotFound"] - 1

\* C10: when the unit lookup of a non-terminal job was not-found, the
\* metadata answer m alone decides: completed with an outputUrl marks the job
\* completed with that URL and emits render:complete with it; failed marks it
\* failed with the metadata error; anything else marks it failed as
\* unrecoverable.
C10_NotFoundFallsBackToMetadata ==
  [][\A id \in RenderIds :
       (NotFoundStep(id) /\ StatusOf(id) \notin Terminal) =>
         LET m == lastMetaRead'[id].m
             job == activeJobs'[id]
         IN /\ lastMetaRead'[id].by = "notFound"
            /\ (m.status = "completed" /\ m.outputUrl # Null) =>
                 /\ job.status = "completed"
                 /\ job.outputUrl = m.outputUrl
                 /\ events' = Append(events, RenderComplete(id, m.outputUrl))
            /\ (m.status = "failed") =>
                 /\ job.status = "failed"
                 /\ m.error # Null => job.error = m.error
            /\ (m.status # "failed" /\
                ~(m.status = "completed" /\ m.outputUrl # Null)) =>
                 /\ job.status = "failed"
                 /\ job.error = ErrNotFound]_vars

\* C10 witness: the not-found fallback completed the job from the metadata
C10_Witness ==
  \E id \in DOMAIN activeJobs :
    /\ lastMetaRead[id].by = "notFound"
    /\ lastMetaRead[id].m.status = "completed"
    /\ unit[id] = "gone"
    /\ activeJobs[id].status = "completed"
    /\ activeJobs[id].outputUrl = MetaUrl
    /\ events[Len(events)] = RenderComplete(id, MetaUrl)

(***************************************************************************)
(* websocket.ts over container.ts: sessions of a connection                *)
(***************************************************************************)

\* the sessions registered for connection c
Live(c) == {s \in DOMAIN sessions : sessions[s].conn = c}

\* the sessions createSession was called for on behalf of connection c
Created(c) == {s \in DOMAIN owner : owner[s] = c}

\* C3: a connection never owns two registered Sessions, whatever the
\* interleaving of its session:start handlers.
C3_NeverTwoLiveSessions ==
  \A c \in Conns : Cardinality(Live(c)) <= 1

\* the connection received session:start, message:send*, session:end, its
\* handlers have all returned and every createSession call returned a Session
StartSendEndDone(c) ==
  /\ script[c] = "ended"
  /\ wsState[c] = "open"
  /\ Running(c) = {}
  /\ \A s \in Created(c) : s \in DOMAIN sessions \/ s \in removed

\* C4: after session:start, message:send*, session:end on one connection,
\* createSession was called once, destroySession removed the Session it
\* created, and no Session is registered for the connection.
C4_StartSendEndCreatesAndDestroysOne ==
  \A c \in Conns :
    StartSendEndDone(c) =>
      /\ Cardinality(Created(c)) = 1
      /\ Created(c) \subseteq removed
      /\ Live(c) = {}

\* the agent port of session s was seen to accept connections: the bridge
\* opens an agent WebSocket for s only after waitForPort returned
PortConfirmed(s) == \E k \in SockIds : sock[k].state # "none" /\ sock[k].sid = s

\* C5: a Session is in the registry only after its compute unit was
\* confirmed ready.
C5_RegisteredOnlyWhenReady ==
  \A s \in DOMAIN sessions : PortConfirmed(s)

\* C6: when a connection that owns a Session has closed (and nobody connects
\* again), a cleanup timer is set, and once it has fired and the handlers
\* of the connection have returned, the Session is destroyed and
\* destroySession was called for it exactly once.
C6_DestroyedOnceAfterGrace ==
  \A c \in Conns :
    (wsState[c] = "closed" /\ closedWith[c].found) =>
      LET s == closedWith[c].sid
      IN /\ client[c].cleanupTimer # Null
         /\ (client[c].cleanupTimer = "fired" /\ Running(c) = {}) =>
               (destroyCalls[s] = 1 /\ s \in removed)

\* C7: a cleanup timer that is pending for a session when the client
\* connects again is cancelled: it never fires and the session stays
\* registered.
C7_ReconnectCancelsCleanup ==
  [][\A c \in Conns :
       (client[c].cleanupTimer = "pending"
          /\ client[c].sessionId \in reconnectedFor)
         => client'[c].cleanupTimer = "pending"]_vars

(***************************************************************************)
(* websocket.ts: forwarding of the agent's messages                        *)
(***************************************************************************)

RECURSIVE AgentMessagesIn(_)
\* the data of the agent:message events of a sequence of events, in order
AgentMessagesIn(evs) ==
  IF evs = << >> THEN << >>
  ELSE IF Head(evs).type = "agent:message"
         THEN << Head(evs).data >> \o AgentMessagesIn(Tail(evs))
         ELSE AgentMessagesIn(Tail(evs))

IsPrefix(a, b) == Len(a) <= Len(b) /\ a = SubSeq(b, 1, Len(a))

\* C8: the agent:message events sent on a connection carry the agent
\* messages the bridge received for it, in the order it received them, each
\* once and none merged; none is missing while the client socket is open.
C8_ForwardedInOrder ==
  \A c \in Conns :
    /\ IsPrefix(AgentMessagesIn(clientOut[c]), bridgeRecv[c])
    /\ wsState[c] = "open" => AgentMessagesIn(clientOut[c]) = bridgeRecv[c]

C8_Witness ==
  \E c \in Conns :
    /\ Len(bridgeRecv[c]) >= 2
    /\ AgentMessagesIn(clientOut[c]) = bridgeRecv[c]
    /\ \E i \in 1 .. Len(bridgeRecv[c]) : bridgeRecv[c][i].type = "complete"

(***************************************************************************)
(* websocket.ts: the resume token, prompts and the start acknowledgment    *)
(***************************************************************************)

\* the agentSessionId the registry holds for session s, NoId when it holds
\* none
AgentIdOf(s) ==
  IF "agentSessionId" \in DOMAIN sessions[s]
    THEN sessions[s].agentSessionId
    ELSE NoId

\* the bridge takes a session_id message off agent channel k
SessionIdStep(k) ==
  /\ agentChan[k] # << >>
  /\ Head(agentChan[k]).type = "session_id"
  /\ agentChan'[k] = Tail(agentChan[k])

\* C11: when the bridge receives session_id on the agent channel of a
\* registered Session, the token becomes the agentSessionId of that Session.
C11_SessionIdRecorded ==
  [][\A k \in SockIds :
       (SessionIdStep(k) /\ sock[k].sid \in DOMAIN sessions')
         => AgentIdOf(sock[k].sid)' = Head(agentChan[k]).n]_vars

\* a message:send is received on connection c
MessageSendStep(c) ==
  /\ RecvMessageSend(c, MaxClientMsgs)

\* C13: a message:send on a connection whose agent channel is missing or
\* not open is answered with one error event and reaches no agent; with an
\* open channel it puts exactly one prompt on that channel and sends the
\* client nothing.
C13_MessageSendNeedsOpenChannel ==
  [][\A c \in Conns :
       MessageSendStep(c) =>
         LET k == client[c].agentWs
         IN IF k # NoId /\ sock[k].state = "open"
              THEN /\ agentIn' = [agentIn EXCEPT ![k] = @ + 1]
                   /\ clientOut' = clientOut
              ELSE /\ agentIn' = agentIn
                   /\ clientOut'[c] = Append(clientOut[c],
                        ErrorEvent("No active session or agent not connected"))]_vars

C13_Witness ==
  \E c \in Conns :
    /\ client[c].agentWs # NoId
    /\ agentIn[client[c].agentWs] = 1
    /\ \E i \in 1 .. Len(clientOut[c]) :
         clientOut[c][i] = ErrorEvent("No active session or agent not connected")

\* the events a step sends to the client of connection c
SentTo(c) == SubSeq(clientOut'[c], Len(clientOut[c]) + 1, Len(clientOut'[c]))

\* C14: session:ready is sent only once the agent channel of the new
\* Session has reported open.
C14_ReadyOnlyWhenAgentOpen ==
  [][\A c \in Conns :
       (\E i \in 1 .. Len(SentTo(c)) : SentTo(c)[i].type = "session:ready")
         => (client'[c].agentWs # NoId /\ sock'[client'[c].agentWs].state = "open")]_vars

\* handler h, a session:start, ends without having opened an agent channel
StartFails(h) ==
  /\ handlers[h].kind = "start"
  /\ handlers[h].pc \in {"creating", "waitPort"}
  /\ handlers'[h] = IdleHandler
  /\ sock' = sock

\* C15: when a session:start fails (createSession rejects or the agent port
\* does not answer in time), the client, if still connected, is sent exactly
\* one error event and no session:ready, and the connection stays as it is.
C15_FailedStartReportsError ==
  [][\A h \in HandlerIds :
       StartFails(h) =>
         LET c == handlers[h].conn
         IN /\ wsState'[c] = wsState[c]
            /\ wsState[c] = "open" =>
                  (Len(SentTo(c)) = 1 /\ SentTo(c)[1].type = "error")
            /\ wsState[c] # "open" => SentTo(c) = << >>]_vars

C15_Witness ==
  \E c \in Conns :
    /\ wsState[c] = "open"
    /\ msgCount[c] < MaxClientMsgs
    /\ Running(c) = {}
    /\ client[c].sessionId # NoId
    /\ clientOut[c] = << ErrorEvent("start failed") >>

(***************************************************************************)
(* project-container/agent/src/server.ts: the agent server                 *)
(***************************************************************************)

\* session ids the SDK reports in its init messages
AgentTokens == {"t1", "t2"}

\* AGENT_SESSION_ID in the environment of the process: unset, empty
\* (kubernetes.ts:116 passes '' when the project has none) or a token
EnvValues == {Null, "", "t1"}

\* server.ts:15: process.env.AGENT_SESSION_ID || null
InitialSessionId(env) == IF env \in {Null, ""} THEN Null ELSE env

\* a push that buffers the message whoever waits
QueuePushAlwaysBuffers(q, msg) ==
  IF q.state # "open" THEN q
  ELSE [q EXCEPT !.pushed = @ + 1, !.queue = Append(@, msg)]

\* MessageQueue.push (server.ts:24-38), called behind `if (messageQueue)`:
\* a closed queue discards the message, a waiting resolver takes it, else
\* it is buffered
QueuePush(q, msg) ==
  IF q.state # "open" THEN q
  ELSE IF q.waitingResolvers # << >>
    THEN [q EXCEPT !.pushed = @ + 1, !.waitingResolvers = Tail(@)]
    ELSE [q EXCEPT !.pushed = @ + 1, !.queue = Append(@, msg)]

\* the results ns of the next() calls after push(msg): the oldest waiting
\* call is resolved with the message (server.ts:30-33)
ResolvedByPush(q, msg, ns) ==
  IF q.state = "open" /\ q.waitingResolvers # << >>
    THEN [ns EXCEPT ![Head(q.waitingResolvers)] = Value(msg)]
    ELSE ns

\* MessageQueue.close (server.ts:40-47), called behind `if (messageQueue)`
QueueClose(q) ==
  IF q.state = "null" THEN q
  ELSE [q EXCEPT !.state = "closed", !.waitingResolvers = << >>]

\* the results ns of the next() calls after close(): every waiting call is
\* resolved with done (server.ts:42-45)
ResolvedByClose(q, ns) ==
  [i \in DOMAIN ns |->
     IF \E j \in DOMAIN q.waitingResolvers : q.waitingResolvers[j] = i
       THEN Done ELSE ns[i]]

\* a push call for msg is made while the queue is q: what the log keeps
PushCall(q, msg) ==
  [msg |-> msg, closed |-> q.state = "closed", query |-> Len(queries)]

\* messageQueue.push(msg) behind `if (messageQueue)` (server.ts:213-220)
push(msg) ==
  /\ messageQueue' = QueuePush(messageQueue, msg)
  /\ nexts' = ResolvedByPush(messageQueue, msg, nexts)
  /\ pushLog' = IF messageQueue.state = "null" THEN pushLog
                ELSE Append(pushLog, PushCall(messageQueue, msg))

\* messageQueue.close() behind `if (messageQueue)` (server.ts:228-230)
close ==
  /\ messageQueue' = QueueClose(messageQueue)
  /\ nexts' = ResolvedByClose(messageQueue, nexts)
  /\ UNCHANGED pushLog

\* ws.send guarded by ws.readyState === WebSocket.OPEN
AgentWsSend(msgs) ==
  agentOut' = IF agentConn = "open" THEN agentOut \o msgs ELSE agentOut

\* the process starts (server.ts:9-74)
AgentStart(env) ==
  /\ agentProc = "down"
  /\ agentProc' = "up"
  /\ INITIAL_SESSION_ID' = InitialSessionId(env)
  /\ UNCHANGED << pushLog, nexts, agentConn, sessionId, queryRunning, messageQueue,
                  pendingPush, promptCount, queries, inits, agentOut,
                  abortController, cancelMsgs,
                  renderVars, backendVars, bridgeVars,
                  apiVars >>

\* wss.on('connection') (server.ts:76-84)
AgentConnection ==
  /\ agentProc = "up"
  /\ agentConn = "none"
  /\ agentConn' = "open"
  /\ sessionId' = INITIAL_SESSION_ID
  /\ queryRunning' = FALSE
  /\ messageQueue' = NoQueue
  /\ abortController' = NoController
  /\ UNCHANGED << pushLog, nexts, agentProc, INITIAL_SESSION_ID, pendingPush, promptCount,
                  queries, inits, agentOut, cancelMsgs, renderVars, backendVars,
                  bridgeVars,
                  apiVars >>

\* the options of a query (server.ts:95-114)
QueryOptionsAlwaysPrompt(sid) == [resume |-> sid, systemPrompt |-> TRUE]
QueryOptions(sid) ==
  IF sid = Null
    THEN [resume |-> Null, systemPrompt |-> TRUE]
    ELSE [resume |-> sid, systemPrompt |-> FALSE]

\* startStreamingQuery up to its first await, the for await of
\* server.ts:127 (server.ts:87-127)
startStreamingQuery ==
  /\ messageQueue' = NewQueue
  /\ abortController' = NewController(Len(queries) + 1)
  /\ queryRunning' = TRUE
  /\ queries' = Append(queries, QueryOptions(sessionId))

\* a prompt arrives (server.ts:187-221), up to the await of the 10 ms timer
OnPrompt ==
  /\ agentConn = "open"
  /\ promptCount < MaxPrompts
  /\ promptCount' = promptCount + 1
  /\ IF ~queryRunning \/ messageQueue = NoQueue
       THEN /\ startStreamingQuery
            /\ pendingPush' = Append(pendingPush, promptCount')
            /\ UNCHANGED << pushLog, nexts >>
       ELSE /\ push(promptCount')
            /\ UNCHANGED << queryRunning, queries, pendingPush,
                            abortController >>
  /\ UNCHANGED << agentProc, INITIAL_SESSION_ID, agentConn, sessionId, inits,
                  agentOut, cancelMsgs, renderVars, backendVars, bridgeVars,
                  apiVars >>

\* the 10 ms timer of the oldest waiting prompt handler fires
\* (server.ts:211-216); timers of one delay fire in the order they were set
PromptTimerFires ==
  /\ pendingPush # << >>
  /\ pendingPush' = Tail(pendingPush)
  /\ push(Head(pendingPush))
  /\ UNCHANGED << agentProc, INITIAL_SESSION_ID, agentConn, sessionId,
                  queryRunning, promptCount, queries, inits, agentOut,
                  abortController, cancelMsgs, renderVars, backendVars, bridgeVars,
                  apiVars >>

\* the SDK emits a system init message that carries session id t
\* (server.ts:127-158)
SdkInit(t) ==
  /\ queryRunning
  /\ Len(inits) < MaxInits
  /\ inits' = Append(inits, t)
  /\ sessionId' = t
  /\ AgentWsSend(
       (IF t # sessionId
          THEN << [type |-> "session_id", sessionId |-> t] >> ELSE << >>)
       \o << [type |-> "agent_message", sessionId |-> t] >>)
  /\ UNCHANGED << pushLog, nexts, agentProc, INITIAL_SESSION_ID, agentConn, queryRunning,
                  messageQueue, pendingPush, promptCount, queries,
                  abortController, cancelMsgs, renderVars, backendVars, bridgeVars,
                  apiVars >>

\* the SDK emits a result message (server.ts:127-168)
SdkResult ==
  /\ queryRunning
  /\ Cardinality({i \in 1 .. Len(agentOut) : agentOut[i].type = "complete"})
       < MaxResults
  /\ AgentWsSend(<< [type |-> "agent_message", sessionId |-> Null],
                    [type |-> "complete", sessionId |-> Null] >>)
  /\ UNCHANGED << pushLog, nexts, agentProc, INITIAL_SESSION_ID, agentConn, sessionId,
                  queryRunning, messageQueue, pendingPush, promptCount,
                  queries, inits, abortController, cancelMsgs,
                  renderVars, backendVars, bridgeVars,
                  apiVars >>

\* the stream of the query ends, or throws (server.ts:170-184); it ends
\* only once its input queue is closed
QueryEnds(failed) ==
  /\ queryRunning
  /\ failed \/ messageQueue.state = "closed"
  /\ AgentWsSend(IF failed
                   THEN << [type |-> "error", sessionId |-> Null] >>
                   ELSE << >>)
  /\ queryRunning' = FALSE
  /\ messageQueue' = NoQueue
  /\ UNCHANGED << pushLog, nexts, agentProc, INITIAL_SESSION_ID, agentConn, sessionId,
                  pendingPush, promptCount, queries, inits,
                  abortController, cancelMsgs, renderVars,
                  backendVars, bridgeVars,
                  apiVars >>

\* a caller of abort() that leaves the controller as it is
AbortIgnored(ac) == ac

\* if (abortController) abortController.abort() (server.ts:224-227, 245-247)
Abort(ac) == IF ac = NoController THEN ac ELSE [ac EXCEPT !.aborted = TRUE]

\* a cancel message arrives (server.ts:223-231)
OnCancel ==
  /\ agentConn = "open"
  /\ cancelMsgs < MaxAgentCancels
  /\ cancelMsgs' = cancelMsgs + 1
  /\ abortController' = Abort(abortController)
  /\ close
  /\ UNCHANGED << agentProc, INITIAL_SESSION_ID, agentConn, sessionId,
                  queryRunning, pendingPush, promptCount, queries, inits,
                  agentOut, renderVars, backendVars, bridgeVars,
                  apiVars >>

\* ws.on('close') (server.ts:243-251)
AgentClose ==
  /\ agentConn = "open"
  /\ agentConn' = "closed"
  /\ abortController' = Abort(abortController)
  /\ close
  /\ UNCHANGED << agentProc, INITIAL_SESSION_ID, sessionId, queryRunning,
                  pendingPush, promptCount, queries, inits, agentOut,
                  cancelMsgs,
                  renderVars, backendVars, bridgeVars,
                  apiVars >>

AgentNext ==
  \/ \E env \in EnvValues : AgentStart(env)
  \/ AgentConnection
  \/ OnPrompt
  \/ PromptTimerFires
  \/ \E t \in AgentTokens : SdkInit(t)
  \/ SdkResult
  \/ \E failed \in BOOLEAN : QueryEnds(failed)
  \/ OnCancel
  \/ AgentClose

SpecAgent == RenderInit /\ [][AgentNext]_vars

(***************************************************************************)
(* Properties of the agent server                                          *)
(***************************************************************************)

\* the resume token known on the connection: the id of the last init
\* message, else the one of the environment
KnownToken ==
  IF inits # << >> THEN inits[Len(inits)] ELSE INITIAL_SESSION_ID

\* the messages a step sends on the connection
AgentSent == SubSeq(agentOut', Len(agentOut) + 1, Len(agentOut'))

\* C12: once a resume token is known on a connection, a query started on it
\* resumes that token and gets no system prompt; a session_id notification
\* is sent only for an init message whose id differs from the known one
C12_ResumeOnceTokenKnown ==
  [][/\ (Len(queries') > Len(queries) /\ KnownToken # Null)
          => /\ queries'[Len(queries')].resume = KnownToken
             /\ ~queries'[Len(queries')].systemPrompt
     /\ \A i \in 1 .. Len(AgentSent) :
          AgentSent[i].type = "session_id"
            => /\ Len(inits') = Len(inits) + 1
               /\ AgentSent[i].sessionId = inits'[Len(inits')]
               /\ inits'[Len(inits')] # KnownToken]_vars

\* a first query with the system prompt, its session id captured and
\* notified once, a second init message with the same id, and a second query
\* that resumes it
C12_Witness ==
  /\ Len(queries) = 2
  /\ queries[1].systemPrompt
  /\ queries[2] = [resume |-> "t1", systemPrompt |-> FALSE]
  /\ inits = << "t1", "t1" >>
  /\ Cardinality({i \in 1 .. Len(agentOut) :
                    agentOut[i].type = "session_id"}) = 1

(***************************************************************************)
(* container.ts and kubernetes.ts: the compute backend under any callers   *)
(***************************************************************************)

\* the lowest free call slot
FreeCall == CHOOSE k \in CallIds :
  calls[k].op = "none" /\ \A j \in CallIds : j < k => calls[j].op # "none"

\* destroySession calls made so far, by the callers and by the sweep
RECURSIVE SumTo(_, _)
SumTo(f, n) == IF n = 0 THEN 0 ELSE f[n] + SumTo(f, n - 1)
DestroysMade == SumTo(destroyCalls, nextId) - Cardinality(sweep.called)

\* shutdown() exits the process once cleanupAllSessions returned
\* (index.ts:36-38)
Alive == sweep.pc # "returned"

\* the Session createSession builds in cluster mode (kubernetes.ts:168-179)
KubeSession(project, agent) ==
  [projectId |-> project, podIp |-> "ip", previewPort |-> 3000,
   agentPort |-> 3001, agentSessionId |-> agent]

\* sessions.set(sessionId, session)
Register(sid, session) ==
  /\ sessions' = (sid :> session) @@ sessions
  /\ regLog' = Append(regLog, sid)

\* call k ends as record c says
Ends(k, c) ==
  /\ calls' = [calls EXCEPT ![k] = IdleCall]
  /\ lastCall' = c

\* createSession is called: up to its first await (container.ts:23-32,
\* kubernetes.ts:39-50 with a project, kubernetes.ts:39-156 without)
CreateSessionCall(project, max) ==
  /\ Alive
  /\ nextId <= max
  /\ mode = "local" => project = Null
  /\ calls' = [calls EXCEPT ![FreeCall] =
       [IdleCall EXCEPT
          !.op = "create",
          !.pc = IF mode = "cluster" /\ project # Null
                   THEN "getProject" ELSE "creating",
          !.sid = nextId,
          !.project = project,
          !.port = portCounter]]
  /\ nextId' = nextId + 1
  /\ portCounter' = IF mode = "local" THEN portCounter + 1 ELSE portCounter
  /\ UNCHANGED << sessions, unitOf, destroyCalls, owner, removed, mode,
                  regLog, sweep, syncCalls, stopCalls, lastCall, renderVars,
                  bridgeVars, agentVars >>

\* getProject returns the agent session id of the project, or null, or
\* throws, which is only logged (kubernetes.ts:48-58); the pod is requested
GetProjectReturns(k, agent) ==
  /\ Alive
  /\ calls[k].pc = "getProject"
  /\ calls' = [calls EXCEPT ![k].agent = agent, ![k].pc = "creating"]
  /\ UNCHANGED << backendVars, mode, regLog, sweep, syncCalls, stopCalls,
                  lastCall, renderVars, bridgeVars, agentVars >>

\* docker.createContainer resolves (container.ts:32-53) or
\* createNamespacedPod does (kubernetes.ts:156-200): the container is
\* started, or the readiness wait begins with its first status read
CreateUnitResolved(k) ==
  /\ Alive
  /\ calls[k].pc = "creating"
  /\ unitOf' = [unitOf EXCEPT ![calls[k].sid] =
       IF mode = "local" THEN "created" ELSE "pending"]
  /\ calls' = [calls EXCEPT ![k].pc =
       IF mode = "local" THEN "starting" ELSE "reading"]
  /\ UNCHANGED << sessions, nextId, portCounter, destroyCalls, owner,
                  removed, mode, regLog, sweep, syncCalls, stopCalls,
                  lastCall, renderVars, bridgeVars, agentVars >>

\* createSession throws err: nothing is registered
CreateFailureRegisters(k, err) ==
  /\ Ends(k, [calls[k] EXCEPT !.pc = "threw", !.err = err])
  /\ Register(calls[k].sid, LocalSession(calls[k].port, Null))
CreateFailure(k, err) ==
  /\ Ends(k, [calls[k] EXCEPT !.pc = "threw", !.err = err])
  /\ UNCHANGED << sessions, regLog >>

\* docker.createContainer rejects (container.ts:32) or createNamespacedPod
\* does (kubernetes.ts:155-161)
CreateUnitRejected(k) ==
  /\ Alive
  /\ calls[k].pc = "creating"
  /\ CreateFailure(k, "create")
  /\ UNCHANGED << unitOf, nextId, portCounter, destroyCalls, owner, removed,
                  mode, sweep, syncCalls, stopCalls, renderVars, bridgeVars,
                  agentVars >>

\* container.start resolves: the Session is registered and returned
\* (container.ts:53-70)
StartResolved(k) ==
  /\ Alive
  /\ calls[k].pc = "starting"
  /\ unitOf' = [unitOf EXCEPT ![calls[k].sid] = "running"]
  /\ Register(calls[k].sid, LocalSession(calls[k].port, Null))
  /\ Ends(k, [calls[k] EXCEPT !.pc = "returned"])
  /\ UNCHANGED << nextId, portCounter, destroyCalls, owner, removed, mode,
                  sweep, syncCalls, stopCalls, renderVars, bridgeVars,
                  agentVars >>

\* container.start rejects (container.ts:53)
StartRejected(k) ==
  /\ Alive
  /\ calls[k].pc = "starting"
  /\ CreateFailure(k, "start")
  /\ UNCHANGED << unitOf, nextId, portCounter, destroyCalls, owner, removed,
                  mode, sweep, syncCalls, stopCalls, renderVars, bridgeVars,
                  agentVars >>

\* the status of a pod as readNamespacedPod reports it
PodStatus(u) ==
  [phase |-> IF u = "failed" THEN "Failed"
             ELSE IF u = "pending" THEN "Pending" ELSE "Running",
   allReady |-> u = "ready",
   podIP |-> IF u \in {"assigned", "ready"} THEN "ip" ELSE Null]

\* kubernetes.ts:209-213
PodReadyIpOnly(status) == status.podIP # Null
PodReady(status) == status.allReady /\ status.podIP # Null

\* readNamespacedPod returns the status of the pod, or rejects
\* (kubernetes.ts:200-227): a ready pod ends the wait and the Session is
\* registered and returned (kubernetes.ts:164-189); anything else, the
\* Failed phase included, whose throw the catch of the loop takes, leads
\* to the sleep
ReadPodReturns(k, ok) ==
  /\ Alive
  /\ calls[k].pc = "reading"
  /\ ok => unitOf[calls[k].sid] \notin {"none", "stopped"}
  /\ LET sid == calls[k].sid
         status == PodStatus(unitOf[sid])
     IN IF ok /\ status.phase # "Failed" /\ PodReady(status)
          THEN /\ Register(sid, KubeSession(calls[k].project, calls[k].agent))
               /\ Ends(k, [calls[k] EXCEPT !.pc = "returned",
                                           !.seen = unitOf[sid]])
          ELSE /\ calls' = [calls EXCEPT
                              ![k].pc = "sleeping",
                              ![k].seen = IF ok THEN unitOf[sid] ELSE @]
               /\ UNCHANGED << sessions, regLog, lastCall >>
  /\ UNCHANGED << unitOf, nextId, portCounter, destroyCalls, owner, removed,
                  mode, sweep, syncCalls, stopCalls, renderVars, bridgeVars,
                  agentVars >>

\* the time one sleep of the readiness wait takes: the 2 s of the timer, or
\* so long that the timeout has passed
Elapses == {POLL_SLEEP, POD_READY_TIMEOUT}

\* the sleep of the readiness wait ends after d ms and the loop tests the
\* time (kubernetes.ts:198, 227-230)
PodSleepEnds(k, d) ==
  /\ Alive
  /\ calls[k].pc = "sleeping"
  /\ d = POLL_SLEEP => calls[k].polls < MaxPolls
  /\ IF calls[k].elapsed + d < POD_READY_TIMEOUT
       THEN /\ calls' = [calls EXCEPT ![k].elapsed = @ + d,
                                      ![k].polls = @ + 1,
                                      ![k].pc = "reading"]
            /\ UNCHANGED lastCall
       ELSE Ends(k, [calls[k] EXCEPT !.elapsed = @ + d, !.pc = "threw",
                                     !.err = "timeout"])
  /\ UNCHANGED << backendVars, mode, regLog, sweep, syncCalls, stopCalls,
                  renderVars, bridgeVars, agentVars >>

\* the cluster moves a pod: an address is assigned, its containers become
\* ready, it fails, or it ends (activeDeadlineSeconds); a local container
\* ends
UnitMoves(sid, u) ==
  /\ Alive
  /\ << unitOf[sid], u >> \in
       {<< "pending", "assigned" >>, << "assigned", "ready" >>,
        << "assigned", "failed" >>, << "failed", "stopped" >>,
        << "ready", "stopped" >>, << "running", "stopped" >>}
  /\ unitOf' = [unitOf EXCEPT ![sid] = u]
  /\ UNCHANGED << sessions, nextId, portCounter, destroyCalls, owner,
                  removed, apiVars, renderVars, bridgeVars, agentVars >>

\* destroySession(sid) up to its first await: the lookup
\* (container.ts:74-78, kubernetes.ts:237-241), then the sync request of a
\* session with a project (kubernetes.ts:246-248, 276-288) or the deletion
\* request (container.ts:82-84, kubernetes.ts:255-260)
DestroyPcNoLookup(sid) ==
  IF mode = "cluster" /\ SessionFound(sid) /\ sessions[sid].projectId # Null
       /\ sessions[sid].podIp # Null
    THEN "syncing"
    ELSE "deleting"
DestroyPc(sid) ==
  IF ~SessionFound(sid) THEN "returned"
  ELSE IF mode = "cluster" /\ sessions[sid].projectId # Null
            /\ sessions[sid].podIp # Null
    THEN "syncing"
    ELSE "deleting"

\* the requests a destroySession call that goes to pc has sent
Requested(sid, pc) ==
  /\ destroyCalls' = [destroyCalls EXCEPT ![sid] = @ + 1]
  /\ syncCalls' = IF pc = "syncing"
                    THEN [syncCalls EXCEPT ![sid] = @ + 1] ELSE syncCalls
  /\ stopCalls' = IF pc = "deleting"
                    THEN [stopCalls EXCEPT ![sid] = @ + 1] ELSE stopCalls

\* a caller calls destroySession(sid), for a session id drawn so far or for
\* one that was never drawn
DestroySessionCall(sid, max) ==
  /\ Alive
  /\ DestroysMade < max
  /\ sid <= nextId
  /\ LET c == [IdleCall EXCEPT !.op = "destroy", !.pc = DestroyPc(sid),
                               !.sid = sid, !.found = SessionFound(sid)]
     IN IF c.pc = "returned"
          THEN lastCall' = c /\ UNCHANGED calls
          ELSE calls' = [calls EXCEPT ![FreeCall] = c] /\ UNCHANGED lastCall
  /\ Requested(sid, DestroyPc(sid))
  /\ UNCHANGED << sessions, unitOf, nextId, portCounter, owner, removed,
                  mode, regLog, sweep, renderVars, bridgeVars, agentVars >>

\* the answers of the sync endpoint (response.ok, or anything else) and of
\* the unit deletion
SyncAnswers == {"ok", "unreachable"}
DeleteAnswers == {"deleted", "gone", "error"}

\* destroySession after its sync: whatever the answer, syncSession returns
\* (kubernetes.ts:283-297) and the pod deletion is requested
\* (kubernetes.ts:246-260)
AfterSyncStopsOnFailure(res) == IF res = "ok" THEN "deleting" ELSE "threw"
AfterSync(res) == "deleting"

\* the deletion can answer "deleted" for a unit that exists and "gone"
\* (container.stop rejects, deleteNamespacedPod answers 404) for one that
\* does not
DeleteAnswerPossible(sid, res) ==
  /\ res = "deleted" => unitOf[sid] \notin {"none", "stopped"}
  /\ res = "gone" => unitOf[sid] = "stopped"

\* the sync request of a destroySession call returns
SyncReturns(k, res) ==
  /\ Alive
  /\ calls[k].pc = "syncing"
  /\ IF AfterSync(res) = "deleting"
       THEN /\ calls' = [calls EXCEPT ![k].sync = res, ![k].pc = "deleting"]
            /\ stopCalls' = [stopCalls EXCEPT ![calls[k].sid] = @ + 1]
            /\ UNCHANGED lastCall
       ELSE /\ Ends(k, [calls[k] EXCEPT !.sync = res, !.pc = AfterSync(res)])
            /\ UNCHANGED stopCalls
  /\ UNCHANGED << backendVars, mode, regLog, sweep, syncCalls, renderVars,
                  bridgeVars, agentVars >>

\* the deletion request of a destroySession call returns: whatever the
\* answer, the session is removed from the registry and the call returns
\* (container.ts:82-91, kubernetes.ts:255-269)
DeleteReturns(k, res) ==
  /\ Alive
  /\ calls[k].pc = "deleting"
  /\ DeleteAnswerPossible(calls[k].sid, res)
  /\ DestroySessionReturns(calls[k].sid, res = "deleted")
  /\ Ends(k, [calls[k] EXCEPT !.del = res, !.pc = "returned"])
  /\ UNCHANGED << nextId, portCounter, destroyCalls, owner, mode, regLog,
                  sweep, syncCalls, stopCalls, renderVars, bridgeVars,
                  agentVars >>

\* the callers of the backend make at most creates createSession calls and
\* destroys destroySession calls
BackendSteps(creates, destroys) ==
  \/ \E project \in ProjectIds : CreateSessionCall(project, creates)
  \/ \E k \in CallIds : \E agent \in {Null, "t1"} : GetProjectReturns(k, agent)
  \/ \E k \in CallIds : CreateUnitResolved(k)
  \/ \E k \in CallIds : CreateUnitRejected(k)
  \/ \E k \in CallIds : StartResolved(k)
  \/ \E k \in CallIds : StartRejected(k)
  \/ \E k \in CallIds : \E ok \in BOOLEAN : ReadPodReturns(k, ok)
  \/ \E k \in CallIds : \E d \in Elapses : PodSleepEnds(k, d)
  \/ \E sid \in SessionIds : \E u \in {"assigned", "ready", "failed", "stopped"} :
       UnitMoves(sid, u)
  \/ \E sid \in SessionIds : DestroySessionCall(sid, destroys)
  \/ \E k \in CallIds : \E res \in SyncAnswers : SyncReturns(k, res)
  \/ \E k \in CallIds : \E res \in DeleteAnswers : DeleteReturns(k, res)

BackendNext == BackendSteps(MaxCreates, MaxDestroys)

\* the backend is the local one or the cluster one, as the environment of
\* the process says (index.ts:6-9)
BackendSpecInit ==
  /\ RenderVarsInit
  /\ BackendInit
  /\ BridgeInit
  /\ AgentInit
  /\ ApiInit
  /\ mode \in Modes

SpecBackend == BackendSpecInit /\ [][BackendNext]_vars

(***************************************************************************)
(* cleanupAllSessions, called by shutdown() of index.ts                    *)
(***************************************************************************)

\* the iterator of sessions.values() (container.ts:105, kubernetes.ts:358):
\* the position of the first session registered after position pos that is
\* still in the registry, gone apart; 0 when there is none. The iterator is
\* live: it meets the sessions registered during the sweep
SweepNextPosSnapshot(pos, gone) ==
  LET left == {i \in (pos + 1) .. Len(regLog) :
                 /\ regLog[i] \in (DOMAIN sessions) \ {gone}
                 /\ regLog[i] \in (IF sweep.pc = "idle" THEN DOMAIN sessions
                                                         ELSE sweep.tracked)}
  IN IF left = {} THEN 0 ELSE CHOOSE i \in left : \A j \in left : i <= j
SweepNextPos(pos, gone) ==
  LET left == {i \in (pos + 1) .. Len(regLog) :
                 regLog[i] \in (DOMAIN sessions) \ {gone}}
  IN IF left = {} THEN 0 ELSE CHOOSE i \in left : \A j \in left : i <= j

\* cleanupAllSessions takes the next session and calls destroySession for
\* it, or returns (container.ts:105-107, kubernetes.ts:358-360)
SweepVisit(sw, gone) ==
  LET i == SweepNextPos(sw.pos, gone)
  IN IF i = 0
       THEN /\ sweep' = [sw EXCEPT !.pc = "returned", !.cur = NoId]
            /\ UNCHANGED << destroyCalls, syncCalls, stopCalls >>
       ELSE /\ sweep' = [sw EXCEPT !.pc = DestroyPc(regLog[i]),
                                   !.cur = regLog[i],
                                   !.pos = i,
                                   !.called = @ \cup {regLog[i]}]
            /\ Requested(regLog[i], DestroyPc(regLog[i]))

\* shutdown() calls cleanupAllSessions (index.ts:29-36)
CleanupAllSessionsCall ==
  /\ sweep.pc = "idle"
  /\ SweepVisit([sweep EXCEPT !.tracked = DOMAIN sessions], NoId)
  /\ UNCHANGED << sessions, unitOf, nextId, portCounter, owner, removed,
                  mode, calls, regLog, lastCall, renderVars, bridgeVars,
                  agentVars >>

\* the sync request of the destroySession call of the sweep returns
SweepSyncReturns(res) ==
  /\ sweep.pc = "syncing"
  /\ sweep' = [sweep EXCEPT
       !.pc = AfterSync(res),
       !.failed = IF res = "ok" THEN @ ELSE @ \cup {sweep.cur}]
  /\ stopCalls' = IF AfterSync(res) = "deleting"
                    THEN [stopCalls EXCEPT ![sweep.cur] = @ + 1]
                    ELSE stopCalls
  /\ UNCHANGED << backendVars, mode, calls, regLog, syncCalls, lastCall,
                  renderVars, bridgeVars, agentVars >>

\* the deletion request of the destroySession call of the sweep returns,
\* and the sweep goes on
SweepDeleteReturns(res) ==
  /\ sweep.pc = "deleting"
  /\ DeleteAnswerPossible(sweep.cur, res)
  /\ DestroySessionReturns(sweep.cur, res = "deleted")
  /\ SweepVisit([sweep EXCEPT
                   !.failed = IF res = "deleted" THEN @ ELSE @ \cup {sweep.cur}],
                sweep.cur)
  /\ UNCHANGED << nextId, portCounter, owner, mode, calls, regLog, lastCall,
                  renderVars, bridgeVars, agentVars >>

\* the handlers still run while the process shuts down
SweepNext ==
  \/ BackendSteps(MaxSweepCreates, MaxSweepDestroys)
  \/ CleanupAllSessionsCall
  \/ \E res \in SyncAnswers : SweepSyncReturns(res)
  \/ \E res \in DeleteAnswers : SweepDeleteReturns(res)

SpecSweep == BackendSpecInit /\ [][SweepNext]_vars

\* the status read of a readiness wait is answered and its sleep ends: the
\* cluster API answers or rejects, and setTimeout fires
WaitNext == BackendSteps(MaxWaitCreates, MaxWaitDestroys)

SpecBackendFair ==
  /\ BackendSpecInit
  /\ [][WaitNext]_vars
  /\ \A k \in CallIds :
       /\ WF_vars(\E ok \in BOOLEAN : ReadPodReturns(k, ok))
       /\ WF_vars(\E d \in Elapses : PodSleepEnds(k, d))

\* the poller of one render job next to the callers of the backend
SuspendNext ==
  \/ WaitNext
  \/ \E id \in RenderIds : CreateRenderJobCall(id)
  \/ \E id \in RenderIds : CreateRenderJobResolved(id)
  \/ \E id \in RenderIds : ticksFired[id] < MaxListenerTicks /\ PollTick(id)
  \/ \E id \in RenderIds :
       \E res \in {"succeeded", "failed", "active", "none", "404", "error"} :
         ReadJobReturns(id, res)
  \/ \E id \in RenderIds : \E m \in MetaValues \cup {NoMeta} :
       MetaSucceededReturns(id, m)
  \/ \E id \in RenderIds : \E m \in MetaValues \cup {NoMeta} :
       MetaFailedReturns(id, m)
  \/ \E id \in RenderIds : \E m \in MetaValues \cup {NoMeta} :
       MetaNotFoundReturns(id, m)
  \/ \E id \in RenderIds : CeilingTimeout(id)
  \/ \E id \in RenderIds :
       \E u \in {"active", "succeeded", "failed", "gone"} : UnitStep(id, u)

\* what the program itself schedules happens: the setTimeout callbacks fire
\* (the ceiling of a render job, the sleep of a readiness wait), and the
\* cluster API answers the status read of a readiness wait and the deletion
\* of a unit. Nothing is assumed of the sync request of destroySession
\* (kubernetes.ts:284-288, a fetch with no timeout of its own) nor of the
\* reads of a poll tick
SpecSuspendFair ==
  /\ BackendSpecInit
  /\ [][SuspendNext]_vars
  /\ \A id \in RenderIds : WF_vars(CeilingTimeout(id))
  /\ \A k \in CallIds :
       /\ WF_vars(\E ok \in BOOLEAN : ReadPodReturns(k, ok))
       /\ WF_vars(\E d \in Elapses : PodSleepEnds(k, d))
       /\ WF_vars(\E res \in DeleteAnswers : DeleteReturns(k, res))

(***************************************************************************)
(* Properties of the compute backend                                       *)
(***************************************************************************)

\* a call ends in this step
CallEnds == lastCall' # lastCall

\* C16: when the creation of the unit is rejected, createSession throws that
\* error, the registry stays as it is and holds no session of the attempt
C16_RejectedCreateRegistersNothing ==
  [][\A k \in CallIds :
       (calls[k].pc = "creating" /\ calls'[k] = IdleCall)
         => /\ lastCall'.op = "create"
            /\ lastCall'.sid = calls[k].sid
            /\ lastCall'.pc = "threw"
            /\ lastCall'.err = "create"
            /\ sessions' = sessions
            /\ regLog' = regLog
            /\ calls[k].sid \notin DOMAIN sessions']_vars

\* a rejected creation, with another session in the registry
C16_Witness ==
  /\ lastCall.op = "create"
  /\ lastCall.pc = "threw"
  /\ lastCall.err = "create"
  /\ DOMAIN sessions # {}
  /\ lastCall.sid \notin DOMAIN sessions

C18_DestroyAlwaysRemoves ==
  [][(CallEnds /\ lastCall'.op = "destroy" /\ lastCall'.found)
       => /\ lastCall'.pc = "returned"
          /\ lastCall'.del \in DeleteAnswers
          /\ stopCalls'[lastCall'.sid] >= 1
          /\ lastCall'.sid \notin DOMAIN sessions'
          /\ lastCall'.sid \in removed']_vars

\* a destroySession whose sync failed and whose unit was already gone
C18_Witness ==
  /\ lastCall.op = "destroy"
  /\ lastCall.found
  /\ lastCall.sync = "unreachable"
  /\ lastCall.del = "gone"
  /\ lastCall.pc = "returned"
  /\ lastCall.sid \in removed

\* a caller calls destroySession(sid) in this step
DestroyCallStep(sid) ==
  /\ destroyCalls'[sid] = destroyCalls[sid] + 1
  /\ sweep' = sweep

\* C19: destroySession for an id that is not in the registry returns at
\* once: no sync, no deletion, the registry and the units as they were
C19_DestroyUnknownIsNoOp ==
  [][\A sid \in SessionIds :
       (DestroyCallStep(sid) /\ ~SessionFound(sid))
         => /\ lastCall' = [IdleCall EXCEPT !.op = "destroy",
                                            !.pc = "returned", !.sid = sid]
            /\ calls' = calls
            /\ sessions' = sessions
            /\ regLog' = regLog
            /\ removed' = removed
            /\ unitOf' = unitOf
            /\ syncCalls' = syncCalls
            /\ stopCalls' = stopCalls]_vars

\* destroySession called a second time for a session, after the first call
\* removed it
C19_Witness ==
  /\ lastCall.op = "destroy"
  /\ lastCall.pc = "returned"
  /\ ~lastCall.found
  /\ lastCall.sid \in removed
  /\ destroyCalls[lastCall.sid] = 2
  /\ stopCalls[lastCall.sid] = 1

\* C20: when cleanupAllSessions returns, the registry is empty and every
\* session that was tracked when it was called has had destroySession
\* called for it, its deletion requested, and is removed, whatever the syncs
\* and the deletions answered
C20_SweepEmptiesRegistry ==
  sweep.pc = "returned"
    => /\ DOMAIN sessions = {}
       /\ \A sid \in sweep.tracked :
            /\ sid \in removed
            /\ destroyCalls[sid] >= 1
            /\ stopCalls[sid] >= 1
       /\ \A sid \in sweep.called : sid \in removed

\* a sweep over two sessions that went on after the deletion of the first
\* one failed
C20_Witness ==
  /\ sweep.pc = "returned"
  /\ Cardinality(sweep.tracked) = 2
  /\ sweep.called = sweep.tracked
  /\ Len(regLog) = 2
  /\ regLog[1] \in sweep.failed

(***************************************************************************)
(* Properties of cancelRenderJob, the poller and the event listeners       *)
(***************************************************************************)

\* the step in which a cancelRenderJob call for id comes back from its
\* await of deleteNamespacedJob
CancelEnds(id) == cancelsInFlight'[id] = cancelsInFlight[id] - 1

\* C21: cancelRenderJob on a pending or running job requests the deletion of
\* the batch unit; when the deletion is accepted the job is failed with
\* 'Cancelled by user', exactly one render:failed with that reason is
\* emitted and the call returns true; when it is rejected the call returns
\* false, the job record is unchanged and nothing is emitted.
C21_CancelFailsJob ==
  [][\A id \in RenderIds :
       /\ (/\ cancelCalls' = cancelCalls + 1
           /\ lastCancel'.id = id
           /\ id \in DOMAIN activeJobs
           /\ StatusOf(id) \in {"pending", "running"})
            => /\ deleteCalls'[id] = deleteCalls[id] + 1
               /\ cancelsInFlight'[id] = cancelsInFlight[id] + 1
               /\ UNCHANGED << activeJobs, events >>
       /\ CancelEnds(id) =>
            \/ /\ lastCancel' = [id |-> id, ret |-> "true"]
               /\ unit'[id] = "gone"
               /\ activeJobs'[id].status = "failed"
               /\ activeJobs'[id].error = ErrCancelled
               /\ events' = Append(events, RenderFailed(id, ErrCancelled))
            \/ /\ lastCancel' = [id |-> id, ret |-> "false"]
               /\ UNCHANGED << activeJobs, events, unit >>]_vars

\* C21 witness: a running job was cancelled, after an earlier cancel of it
\* had its deletion rejected
C21_Witness ==
  /\ lastCancel = [id |-> "r1", ret |-> "true"]
  /\ cancelCalls = 2
  /\ deleteCalls["r1"] = 2
  /\ cancelsInFlight["r1"] = 0
  /\ "r1" \in DOMAIN activeJobs
  /\ activeJobs["r1"].error = ErrCancelled
  /\ activeJobs["r1"].progress = 10
  /\ Len(SelectSeq(events, LAMBDA e : e = RenderFailed("r1", ErrCancelled))) = 1

\* the render events emitted for id so far
EventsOf(id) == SelectSeq(events, LAMBDA e : e.renderId = id)

\* C22: once a render job is terminal, polling for it has stopped: no poll
\* tick is started for it, and no step of a poll tick changes its status,
\* error, outputUrl or progress or emits a render event for it.
C22_TerminalStopsPolling ==
  [][\A id \in DOMAIN activeJobs :
       (StatusOf(id) \in Terminal /\ ticks'[id] # ticks[id]) =>
         /\ ticksFired' = ticksFired
         /\ activeJobs'[id].status = activeJobs[id].status
         /\ activeJobs'[id].error = activeJobs[id].error
         /\ activeJobs'[id].outputUrl = activeJobs[id].outputUrl
         /\ activeJobs'[id].progress = activeJobs[id].progress
         /\ EventsOf(id)' = EventsOf(id)]_vars

\* C23: every change of a RenderJob's status is published: a transition to
\* running emits render:progress, one to completed emits render:complete
\* with the job's outputUrl, and one to failed emits render:failed with the
\* job's error.
C23_StatusChangesPublished ==
  [][\A id \in DOMAIN activeJobs :
       LET job == activeJobs'[id]
       IN (job.status # StatusOf(id)) =>
            /\ job.status = "running" =>
                 events' = Append(events, RenderProgress(id, job.progress))
            /\ job.status = "completed" =>
                 events' = Append(events, RenderComplete(id, job.outputUrl))
            /\ job.status = "failed" =>
                 events' = Append(events, RenderFailed(id, job.error))]_vars

\* the step in which the readNamespacedJob of a tick for id answers while
\* the unit is active: the read reports it active, or fails
ActiveReadStep(id) ==
  /\ ticks'[id]["readJob"] = ticks[id]["readJob"] - 1
  /\ unit[id] = "active"

\* C25: a poll that reads the unit as active moves the job to running with
\* progress 10 and one render:progress only if the job is pending; for a job
\* in any other status the reading changes nothing and emits nothing.
C25_ActiveOnlyFromPending ==
  [][\A id \in DOMAIN activeJobs :
       ActiveReadStep(id) =>
         \/ UNCHANGED << activeJobs, events >>
         \/ /\ StatusOf(id) = "pending"
            /\ activeJobs'[id].status = "running"
            /\ activeJobs'[id].progress = 10
            /\ events' = Append(events, RenderProgress(id, 10))]_vars

\* the step in which createRenderJob comes back from an accepted submission
CreateResolves(id) == createPc[id] = "creating" /\ createPc'[id] = "done"

\* C29: createRenderJob registers the job as pending with progress 0 and
\* emits one render:started for it, which is the first event of that
\* renderId and the only render:started; a rejected submission registers no
\* job, emits no event and starts no polling.
C29_CreateRegistersAndStarts ==
  /\ [][\A id \in RenderIds :
          CreateResolves(id) =>
            /\ id \notin DOMAIN activeJobs
            /\ id \in DOMAIN activeJobs'
            /\ activeJobs'[id].status = "pending"
            /\ activeJobs'[id].progress = 0
            /\ events' = Append(events, [type |-> "render:started",
                                         renderId |-> id, data |-> Null])
            /\ pollInterval'[id]]_vars
  /\ [](\A id \in RenderIds :
          /\ id \in DOMAIN activeJobs =>
               /\ EventsOf(id) # << >>
               /\ EventsOf(id)[1].type = "render:started"
               /\ \A i \in 2 .. Len(EventsOf(id)) :
                    EventsOf(id)[i].type # "render:started"
          /\ id \notin DOMAIN activeJobs =>
               /\ EventsOf(id) = << >>
               /\ ~pollInterval[id]
               /\ ceilingTimer[id] = "unset"
               /\ ticksFired[id] = 0
          /\ createPc[id] = "rejected" => id \notin DOMAIN activeJobs)

\* C29 witness: render:started came before the progress and the completion
\* of the job
C29_Witness ==
  /\ createPc["r1"] = "done"
  /\ Len(EventsOf("r1")) = 3
  /\ EventsOf("r1")[1].type = "render:started"
  /\ EventsOf("r1")[2].type = "render:progress"
  /\ EventsOf("r1")[3].type = "render:complete"

\* the step of an emitRenderEvent
Emits == Len(events') = Len(events) + 1

\* C24: an emitted render event is handed to every listener registered at
\* that moment, once each and in registration order, whatever the earlier
\* listeners did, and the emitting step completes its update of the job.
C24_EveryListenerInvoked ==
  [][Emits => delivered'.calls = eventListeners]_vars

(***************************************************************************)
(* Properties of session:end and of the resources of a connection          *)
(***************************************************************************)

\* the handleSessionEnd calls of connection c that are awaiting destroySession
EndRunning(c) ==
  {h \in HandlerIds : handlers[h].kind = "end" /\ handlers[h].conn = c}

\* the step in which a handleSessionEnd of connection c returns: after its
\* await of destroySession, or at once when the connection held no
\* registered session
EndReturns(c) ==
  \/ \E h \in EndRunning(c) : handlers'[h] = IdleHandler
  \/ /\ msgCount'[c] = msgCount[c] + 1
     /\ handlers' = handlers
     /\ clientOut'[c] = Append(clientOut[c], SessionEnded)

\* session:end was the last message of connection c and has been handled
Ended(c) == script[c] = "ended" /\ EndRunning(c) = {}

\* C26: when session:end has been handled on a connection, no session of the
\* connection is registered, sessionId and agentWs are null and
\* session:ended was sent to the client; from then on, until another message
\* arrives, a disconnect schedules no cleanup timer and no destroySession is
\* called for a session of the connection.
C26_EndDestroysForGood ==
  [][\A c \in Conns :
       /\ EndReturns(c) =>
            /\ client'[c].sessionId = NoId
            /\ client'[c].agentWs = NoId
            /\ Live(c)' = {}
            /\ wsState[c] = "open" =>
                 clientOut'[c] = Append(clientOut[c], SessionEnded)
       /\ (Ended(c) /\ msgCount'[c] = msgCount[c]) =>
            /\ client'[c].cleanupTimer = client[c].cleanupTimer
            /\ \A s \in Created(c) : destroyCalls'[s] = destroyCalls[s]]_vars

\* the agent sockets opened for connection c and not closed
OpenChannels(c) ==
  {k \in SockIds : sock[k].conn = c /\ sock[k].state \in {"connecting", "open"}}

\* C27: a connection has at most one agent channel that was opened for it
\* and is not closed, and at most one pending cleanup timer: the one its
\* disconnect set.
C27_OneChannelOneTimer ==
  \A c \in Conns :
    /\ Cardinality(OpenChannels(c)) <= 1
    /\ client[c].cleanupTimer = "pending" => wsState[c] = "closed"

(***************************************************************************)
(* Properties of cancellation in the agent server                          *)
(***************************************************************************)

\* the steps in which a prompt, a cancel message and the close of the
\* connection are handled
PromptStep == promptCount' = promptCount + 1
CancelStep == cancelMsgs' = cancelMsgs + 1
CloseStep == agentConn = "open" /\ agentConn' = "closed"

\* the query in flight is aborted by the step, and its input queue closed
AbortsInFlight ==
  /\ abortController'.query = Len(queries)
  /\ abortController'.aborted
  /\ messageQueue'.state = "closed"
  /\ Len(queries') = Len(queries)

C30_NothingBlocksForever ==
  /\ \A k \in CallIds :
       (calls[k].op = "destroy" /\ calls[k].pc = "syncing")
         ~> (calls[k].pc # "syncing")
  /\ \A id \in RenderIds :
       (id \in DOMAIN activeJobs) ~> (ceilingTimer[id] = "fired")

\* ---------------------------------------------------------------------
\* C31  a failed status read that is not a not-found
\* ---------------------------------------------------------------------

\* the step in which a tick's readNamespacedJob fails with another error
ErrorReadStep(id) ==
  /\ ticks'[id]["readJob"] = ticks[id]["readJob"] - 1
  /\ lastRead'[id] = "error"

\* C31: a poll tick whose status read fails with an error other than
\* not-found leaves the job table and the published events as they were
\* and leaves the job's interval running
C31_ReadErrorChangesNothing ==
  [][\A id \in RenderIds :
       ErrorReadStep(id) =>
         /\ activeJobs' = activeJobs
         /\ events' = events
         /\ delivered' = delivered
         /\ pollInterval'[id] = pollInterval[id]]_vars

\* a read has failed while the job was still open, its interval is still
\* running and no tick is in flight: the next tick is still to come
C31_Witness ==
  \E id \in DOMAIN activeJobs :
    /\ lastRead[id] = "error"
    /\ activeJobs[id].status \in {"pending", "running"}
    /\ pollInterval[id]
    /\ ticks[id]["readJob"] = 0
    /\ ticksFired[id] = 1

\* ---------------------------------------------------------------------
\* C36  one terminal event per job
\* ---------------------------------------------------------------------

\* the render:complete and render:failed events emitted for id so far
TerminalEventsOf(id) ==
  SelectSeq(EventsOf(id),
            LAMBDA e : e.type \in {"render:complete", "render:failed"})

\* C36: for each render job at most one terminal event (render:complete or
\* render:failed) is ever emitted, over every interleaving of poll ticks,
\* cancelRenderJob and the ceiling timer.
C36_OneTerminalEvent ==
  \A id \in RenderIds : Len(TerminalEventsOf(id)) <= 1

\* ---------------------------------------------------------------------
\* C39  the fields of a job by status
\* ---------------------------------------------------------------------

\* C39: in every reachable state of the active-jobs table, a completed job
\* has an outputUrl, a completedAt and progress 100, a failed job has an
\* error, and a pending job has progress 0 and neither outputUrl nor error.
C39_FieldsByStatus ==
  \A id \in DOMAIN activeJobs :
    LET job == activeJobs[id]
    IN /\ job.status = "completed" =>
            (job.outputUrl # Null /\ job.completedAt /\ job.progress = 100)
       /\ job.status = "failed" => job.error # Null
       /\ job.status = "pending" =>
            (job.progress = 0 /\ job.outputUrl = Null /\ job.error = Null)

\* a job completed by a tick, a job failed and a job still pending are
\* all reached
C39_Witness ==
  \E id \in DOMAIN activeJobs :
    /\ activeJobs[id].status = "completed"
    /\ activeJobs[id].outputUrl = FallbackUrl
    /\ activeJobs[id].error = Null
    /\ lastRead[id] = "succeeded"

\* ---------------------------------------------------------------------
\* C32  a failed pod during the readiness wait
\* ---------------------------------------------------------------------

\* call k is a createSession whose status read is answered and shows, for
\* the first time, the pod failed
FailedPodRead(k) ==
  /\ calls[k].pc = "reading"
  /\ calls[k].seen # "failed"
  /\ unitOf[calls[k].sid] = "failed"
  /\ \/ calls'[k].seen = "failed"
     \/ calls'[k] = IdleCall /\ lastCall'.seen = "failed"

\* C32: when the readiness wait observes the pod failed, createSession
\* fails at that poll, with an error that is not the readiness timeout: it
\* does not go on polling
C32_FailedPodEndsWait ==
  [][\A k \in CallIds :
       FailedPodRead(k) =>
         /\ calls'[k] = IdleCall
         /\ lastCall'.op = "create"
         /\ lastCall'.pc = "threw"
         /\ lastCall'.err # "timeout"]_vars

(***************************************************************************)
(* container.ts: the host ports of the local backend over many sessions    *)
(***************************************************************************)

\* createSession calls made in the port specification, and the sessions
\* that are registered or being created at one time in it
MaxPortCreates == 101
MaxLivePorts == 2

\* createSession calls of the local backend that have not returned
CreatesInFlight == {k \in CallIds : calls[k].op = "create"}

\* createSession of container.ts from docker.createContainer to its
\* return, with the container created and started at once
\* (container.ts:32-70): the Session is registered with the ports bound
\* before the first await
LocalCreateReturns(k) ==
  /\ calls[k].op = "create"
  /\ calls[k].pc = "creating"
  /\ Register(calls[k].sid, LocalSession(calls[k].port, Null))
  /\ Ends(k, [calls[k] EXCEPT !.pc = "returned"])
  /\ UNCHANGED << unitOf, nextId, portCounter, destroyCalls, owner, removed,
                  mode, sweep, syncCalls, stopCalls, renderVars, bridgeVars,
                  agentVars >>

\* destroySession of container.ts for a registered session, with
\* container.stop() answered at once (container.ts:74-91)
LocalDestroy(sid) ==
  /\ SessionFound(sid)
  /\ sessions' = WithoutSession(sid)
  /\ removed' = removed \cup {sid}
  /\ UNCHANGED << unitOf, nextId, portCounter, destroyCalls, owner, apiVars,
                  renderVars, bridgeVars, agentVars >>

\* the local backend under a caller that creates up to MaxPortCreates
\* sessions one after the other and keeps at most MaxLivePorts of them:
\* every behaviour is one of container.ts in which the Docker daemon answers
\* each request before the next call is made
PortsNext ==
  \/ /\ CreatesInFlight = {}
     /\ Cardinality(DOMAIN sessions) < MaxLivePorts
     /\ CreateSessionCall(Null, MaxPortCreates)
  \/ \E k \in CallIds : LocalCreateReturns(k)
  \/ \E sid \in DOMAIN sessions : LocalDestroy(sid)

SpecPorts == RenderInit /\ [][PortsNext]_vars

\* the host ports a Session binds
HostPorts(s) == {s.previewPort, s.agentPort}

\* C33: in the local backend no host port is bound by two registered
\* Sessions: the preview and agent ports of all registered Sessions, taken
\* together, are pairwise distinct
C33_PortsDistinct ==
  /\ \A s \in DOMAIN sessions : sessions[s].previewPort # sessions[s].agentPort
  /\ \A s, t \in DOMAIN sessions :
       s # t => HostPorts(sessions[s]) \cap HostPorts(sessions[t]) = {}

\* ---------------------------------------------------------------------
\* C38  the unit of a createSession call that fails
\* ---------------------------------------------------------------------

\* a unit in state u exists and is alive: a pod that is scheduled or
\* running, a container that runs
UnitAlive(u) == u \in {"pending", "assigned", "ready", "running"}

\* call k is a createSession that throws in this step
CreateThrows(k) ==
  /\ calls[k].op = "create"
  /\ calls'[k] = IdleCall
  /\ lastCall'.op = "create"
  /\ lastCall'.sid = calls[k].sid
  /\ lastCall'.pc = "threw"

\* C38: when createSession fails after its unit was created, the unit is
\* not left alive without a registry entry
C38_FailedCreateLeavesNoUnit ==
  [][\A k \in CallIds :
       CreateThrows(k) =>
         \/ calls[k].sid \in DOMAIN sessions'
         \/ ~UnitAlive(unitOf'[calls[k].sid])]_vars

(***************************************************************************)
(* server.ts: the MessageQueue class under any producer and consumer       *)
(***************************************************************************)

\* push, next and close calls made on one queue
MaxQueuePushes == 4
MaxQueueNexts == 5
MaxQueueCloses == 2

\* the queue after the next() call number i (server.ts:50-64): nothing to
\* do when it is closed and drained, else the head of the buffer is taken,
\* else the call waits
QueueNext(q, i) ==
  IF q.state = "closed" /\ q.queue = << >> THEN q
  ELSE IF q.queue # << >> THEN [q EXCEPT !.queue = Tail(@)]
  ELSE [q EXCEPT !.waitingResolvers = Append(@, i)]

\* what that call returns
NextResult(q) ==
  IF q.state = "closed" /\ q.queue = << >> THEN Done
  ELSE IF q.queue # << >> THEN Value(Head(q.queue))
  ELSE Pending

\* the consumer calls next() on the iterator of the queue
next ==
  /\ messageQueue' = QueueNext(messageQueue, Len(nexts) + 1)
  /\ nexts' = Append(nexts, NextResult(messageQueue))
  /\ UNCHANGED pushLog

\* a producer pushes its next message, numbered by the call
ProducerPushes ==
  /\ Len(pushLog) < MaxQueuePushes
  /\ push(Len(pushLog) + 1)
  /\ UNCHANGED << agentProc, INITIAL_SESSION_ID, agentConn, sessionId,
                  queryRunning, pendingPush, promptCount, queries, inits,
                  agentOut, abortController, cancelMsgs, renderVars,
                  backendVars, bridgeVars, apiVars >>

\* the consumer asks for the next message
ConsumerNext ==
  /\ Len(nexts) < MaxQueueNexts
  /\ next
  /\ UNCHANGED << agentProc, INITIAL_SESSION_ID, agentConn, sessionId,
                  queryRunning, pendingPush, promptCount, queries, inits,
                  agentOut, abortController, cancelMsgs, renderVars,
                  backendVars, bridgeVars, apiVars >>

\* the queue is closed; cancelMsgs counts the close() calls here
ProducerCloses ==
  /\ cancelMsgs < MaxQueueCloses
  /\ cancelMsgs' = cancelMsgs + 1
  /\ close
  /\ UNCHANGED << agentProc, INITIAL_SESSION_ID, agentConn, sessionId,
                  queryRunning, pendingPush, promptCount, queries, inits,
                  agentOut, abortController, renderVars, backendVars,
                  bridgeVars, apiVars >>

QueueNextStep ==
  \/ ProducerPushes
  \/ ConsumerNext
  \/ ProducerCloses

\* a MessageQueue just constructed (server.ts:19-22)
QueueInit ==
  /\ RenderVarsInit
  /\ BackendInit
  /\ BridgeInit
  /\ ApiInit
  /\ mode = "local"
  /\ agentProc = "up"
  /\ INITIAL_SESSION_ID = Null
  /\ agentConn = "open"
  /\ sessionId = Null
  /\ queryRunning = TRUE
  /\ messageQueue = NewQueue
  /\ pushLog = << >>
  /\ nexts = << >>
  /\ pendingPush = << >>
  /\ promptCount = 0
  /\ queries = << >>
  /\ inits = << >>
  /\ agentOut = << >>
  /\ abortController = NoController
  /\ cancelMsgs = 0

SpecQueue == QueueInit /\ [][QueueNextStep]_vars

\* ---------------------------------------------------------------------
\* C35  MessageQueue
\* ---------------------------------------------------------------------

RECURSIVE ValuesOf(_)
\* the messages the next() calls have returned so far, in call order
ValuesOf(ns) ==
  IF ns = << >> THEN << >>
  ELSE IF Head(ns).settled /\ ~Head(ns).done
    THEN << Head(ns).value >> \o ValuesOf(Tail(ns))
    ELSE ValuesOf(Tail(ns))

RECURSIVE AcceptedOf(_)
\* the messages pushed before close(), in push order
AcceptedOf(log) ==
  IF log = << >> THEN << >>
  ELSE IF ~Head(log).closed
    THEN << Head(log).msg >> \o AcceptedOf(Tail(log))
    ELSE AcceptedOf(Tail(log))

\* the next() calls that wait
WaitingCalls == {i \in DOMAIN nexts : ~nexts[i].settled}

\* C35: the messages pushed before close() are, in push order and each
\* once, the ones delivered followed by the ones still buffered; the buffer
\* and the waiter list are never both non-empty, the waiters are the calls
\* not yet answered and none waits on a closed queue; a push after close()
\* changes nothing, and a next() on a closed and drained queue reports done
C35_QueueFifoExactlyOnce ==
  /\ [](/\ ValuesOf(nexts) \o messageQueue.queue = AcceptedOf(pushLog)
        /\ (messageQueue.queue = << >> \/ messageQueue.waitingResolvers = << >>)
        /\ WaitingCalls = {messageQueue.waitingResolvers[j] :
                             j \in DOMAIN messageQueue.waitingResolvers}
        /\ messageQueue.state = "closed" => WaitingCalls = {})
  /\ [][/\ (Len(pushLog') > Len(pushLog) /\ messageQueue.state = "closed")
             => (messageQueue' = messageQueue /\ nexts' = nexts)
        /\ (Len(nexts') > Len(nexts) /\ messageQueue.state = "closed"
              /\ messageQueue.queue = << >>)
             => nexts'[Len(nexts')] = Done]_vars

\* a first next() waited and got the first message, the second message was
\* buffered and then taken, the third push came after close() and the last
\* next() reported done
C35_Witness ==
  /\ nexts = << Value(1), Value(2), Done >>
  /\ Len(pushLog) = 3
  /\ pushLog[3].closed
  /\ messageQueue.state = "closed"
  /\ messageQueue.pushed = 2

(***************************************************************************)
(* Properties of the prompts of one agent connection                       *)
(***************************************************************************)

\* the prompts for which push was called, in call order
Handed == [i \in DOMAIN pushLog |-> pushLog[i].msg]

\* C34: the prompts of a connection are handed to the input queue in the
\* order they were received, and every prompt whose handler has returned
\* was handed to it
C34_PromptsHandedInOrder ==
  /\ \A i, j \in DOMAIN Handed : i < j => Handed[i] < Handed[j]
  /\ \A n \in 1 .. promptCount :
       \/ \E i \in DOMAIN Handed : Handed[i] = n
       \/ \E i \in DOMAIN pendingPush : pendingPush[i] = n

\* C40: a prompt received after a cancel message starts a new query or is
\* accepted by the queue of the query in flight; it is not discarded
C40_PromptAfterCancelAccepted ==
  [][(PromptStep /\ cancelMsgs > 0) =>
        \/ Len(queries') > Len(queries)
        \/ /\ Len(pushLog') = Len(pushLog) + 1
           /\ ~pushLog'[Len(pushLog')].closed
           /\ messageQueue'.pushed = messageQueue.pushed + 1]_vars

\* ---------------------------------------------------------------------
\* C37  the sessions of a closed connection
\* ---------------------------------------------------------------------

\* connection c has closed and nothing is left to run for it: no handler
\* is suspended and no cleanup timer is pending
Settled(c) ==
  /\ wsState[c] = "closed"
  /\ Running(c) = {}
  /\ client[c].cleanupTimer # "pending"

\* C37: once a connection has closed and everything scheduled for it has
\* run, no Session created for it is left in the registry
C37_ClosedConnectionLeavesNoSession ==
  \A c \in Conns :
    Settled(c) => \A s \in DOMAIN sessions : sessions[s].conn # c

====
